---- MODULE Spec2Model ----
(***************************************************************************)
(* The SMTP send pipeline of the bridge (package user, smtp session):      *)
(* the per-connection session (Reset, Logout, Mail, Rcpt, Data) and the    *)
(* functions Data runs: sendWithKey, sanitizeParsedMessage, getParentID,   *)
(* createDraftWithAttachments, getRecipients, sanitizeEmail and            *)
(* constructEmail.                                                         *)
(*                                                                         *)
(* Go strings are sequences of one-character strings, so that Split,       *)
(* EqualFold and concatenation are computed and not assumed.               *)
(***************************************************************************)
EXTENDS Integers, Sequences, FiniteSets, TLC

VARIABLES
    userID,      \* smtpSession.userID
    addrID,      \* smtpSession.addrID: the address the session is authenticated for
    addrMode,    \* smtpSession.addrMode: "combined" or "split"
    emails,      \* smtpSession.emails: address ID -> email
    settings,    \* smtpSession.settings (AttachPublicKey)
    addrKRs,     \* smtpSession.addrKRs: the address IDs that have a keyring
    fromAddrID,  \* smtpSession.fromAddrID ("" when unset)
    to,          \* smtpSession.to
    eventCh,     \* smtpSession.eventCh: the events enqueued so far
    messages,    \* the mailbox behind smtpSession.client: a set of message metadata
    op,          \* the last command issued, with its arguments
    err,         \* what the last command returned
    calls,       \* the client calls (and the Enqueue) of the last command, in order
    rcpts,       \* the addresses the last Data handed to getRecipients
    parsed,      \* the message sanitizeParsedMessage was last applied to, and its result
    flight,      \* the sendWithKey in progress: its position, its world, the contexts
    safeMap,     \* a safe.Map: its entries, their order and its lock
    mapThreads,  \* the goroutines that use safeMap: their call in progress or last call
    pool         \* a parallel.MapContext in progress: its items, workers and results

vars == <<userID, addrID, addrMode, emails, settings, addrKRs, fromAddrID, to,
          eventCh, messages, op, err, calls, rcpts, parsed, flight, safeMap, mapThreads, pool>>

sessionConst == <<userID, addrID, addrMode, emails, settings, addrKRs>>

mapVars == <<safeMap, mapThreads>>

MapKeys == {"a", "b", "c"}

MapVals == {"b", "c"}

NoVal == "none"

Goroutines == {"t1", "t2"}

\* NewMap: no entry, the lock free.
NewMap == [data |-> [k \in MapKeys |-> NoVal], order |-> <<>>, lock |-> "free"]

NoCall == [name |-> "none", key |-> "", val |-> "", idx |-> 0]

\* No goroutine has called the map yet.
IdleThreads ==
    [t \in Goroutines |->
        [pc |-> "idle", call |-> NoCall, ret |-> FALSE, seen |-> <<>>,
         met |-> [data |-> [k \in MapKeys |-> NoVal], order |-> <<>>]]]

\* No sendWithKey in progress, the client connected, no context cancelled.
\* No parallel.MapContext has been called.
IdlePool == [pc |-> "idle"]

IdleFlight == [pc |-> "idle", connected |-> TRUE, cancelled |-> {}, w |-> <<>>]

----------------------------------------------------------------------------
(* Strings *)

\* A nil pointer to a string (no Sender, no Auth parameter): no Go string equals it.
NIL == <<"nil">>

\* unicode.ToLower on the letters the model uses.
ToLower(c) ==
    CASE c = "A" -> "a"
      [] c = "B" -> "b"
      [] c = "S" -> "s"
      [] OTHER -> c

\* strings.EqualFold
EqualFold(s, t) ==
    /\ Len(s) = Len(t)
    /\ \A i \in 1..Len(s) : ToLower(s[i]) = ToLower(t[i])

\* strings.Index for a one-character separator: 0 when absent.
IndexOf(s, c) ==
    IF \E i \in 1..Len(s) : s[i] = c
    THEN CHOOSE i \in 1..Len(s) : s[i] = c /\ \A j \in 1..(i - 1) : s[j] # c
    ELSE 0

\* strings.Split(s, c): the pieces of s between the occurrences of c.
RECURSIVE Split(_, _)
Split(s, c) ==
    LET i == IndexOf(s, c)
    IN  IF i = 0 THEN <<s>>
        ELSE <<SubSeq(s, 1, i - 1)>> \o Split(SubSeq(s, i + 1, Len(s)), c)

\* slices.Contains
Contains(seq, x) == \E i \in 1..Len(seq) : seq[i] = x

\* xslices.Filter
RECURSIVE Filter(_, _)
Filter(seq, keep) ==
    IF seq = <<>> THEN <<>>
    ELSE (IF Head(seq) \in keep THEN <<Head(seq)>> ELSE <<>>) \o Filter(Tail(seq), keep)

Range(seq) == {seq[i] : i \in 1..Len(seq)}

\* A Go map read: the zero value (the empty string) for an absent key.
Lookup(m, k) == IF k \in DOMAIN m THEN m[k] ELSE <<>>

sanitizeEmail(email) ==
    LET splitAt == Split(email, "@")
    IN  IF Len(splitAt) # 2 THEN email
        ELSE Split(splitAt[1], "+")[1] \o <<"@">> \o splitAt[2]

constructEmail(headerEmail, addressEmail) ==
    LET splitAtHeader == Split(headerEmail, "@")
        splitPlus == Split(splitAtHeader[1], "+")
        splitAtAddress == Split(addressEmail, "@")
    IN  IF Len(splitAtHeader) # 2 THEN addressEmail
        ELSE IF Len(splitPlus) # 2 THEN addressEmail
        ELSE IF Len(splitAtAddress) # 2 THEN addressEmail
        ELSE splitAtAddress[1] \o <<"+">> \o splitPlus[2] \o <<"@">> \o splitAtAddress[2]

----------------------------------------------------------------------------
(* Addresses and errors *)

Alice     == <<"A", "@", "s">>                     \* owned, as the account spells it
alice     == <<"a", "@", "s">>
aliceWork == <<"a", "+", "w", "@", "s">>
aliceTwo  == <<"a", "+", "w", "+", "v", "@", "s">>
Bob       == <<"b", "@", "s">>                     \* owned
Mallory   == <<"m", "@", "x">>                     \* not owned
Rx        == <<"r", "@", "x">>
Qx        == <<"q", "@", "x">>
Empty     == <<>>

OK                   == "ok"
ErrNotImplemented    == "ErrNotImplemented"
ErrInvalidReturnPath == "ErrInvalidReturnPath"
ErrInvalidRecipient  == "ErrInvalidRecipient"
ErrMissingAddrKey    == "ErrMissingAddrKey"

ErrAddressNotOwned   == "address is not owned by user"
ErrParser            == "failed to create parser"
ErrFirstKey          == "failed to get first key"
ErrPublicKey         == "failed to get user public key"
ErrParse             == "failed to parse message"
ErrMetadata          == "failed to get message metadata"
ErrDelete            == "failed to delete message"
ErrEncryptBody       == "failed to encrypt message body"
ErrCreateDraft       == "failed to create draft"
ErrAttachment        == "failed to create attachments"
ErrSendPrefs         == "failed to get send preferences"
ErrPackages          == "failed to create packages"
ErrSendDraft         == "failed to send draft"

SplitMode    == "split"
CombinedMode == "combined"

\* message.InternalIDDomain, one token of a reference.
InternalIDDomain == "protonmail.internalid"

----------------------------------------------------------------------------
(* sanitizeParsedMessage *)

\* message.Message.Recipients: the addresses of ToList, CCList and BCCList.
Recipients(message) == message.ToList \o message.CCList \o message.BCCList

\* The sender the ownership check reads: the envelope address when the header has none.
senderOrFrom(message, from) ==
    IF message.Sender = NIL THEN from
    ELSE IF message.Sender = Empty THEN from
    ELSE message.Sender

\* xslices.IndexFunc(emails, EqualFold(email, sanitizeEmail(sender))): 0 when none.
ownedIndex(sender, emailList) ==
    LET hit(i) == EqualFold(emailList[i], sanitizeEmail(sender))
    IN  IF \E i \in 1..Len(emailList) : hit(i)
        THEN CHOOSE i \in 1..Len(emailList) : hit(i) /\ \A j \in 1..(i - 1) : ~hit(j)
        ELSE 0

\* A ToList left as the header gave it.
keepToList(toList, rcptTo) == toList

\* ToList keeps the addresses the envelope names.
filterToList(toList, rcptTo) == Filter(toList, Range(rcptTo))

\* Every envelope recipient appended to BCCList, wherever else it is.
addBCCAll(message, rcptTo) == [message EXCEPT !.BCCList = @ \o rcptTo]

\* Every envelope recipient that message.Recipients() lacks is appended to BCCList.
RECURSIVE addBCC(_, _)
addBCC(message, rcptTo) ==
    IF rcptTo = <<>> THEN message
    ELSE addBCC(
            IF ~Contains(Recipients(message), Head(rcptTo))
            THEN [message EXCEPT !.BCCList = Append(@, Head(rcptTo))]
            ELSE message,
            Tail(rcptTo))

\* The rewrite of an owned sender, the ToList filter and the BCC loop.
sanitizeOwned(message, sender, owned, rcptTo) ==
    [err |-> OK,
     message |-> addBCC([message EXCEPT !.Sender = constructEmail(sender, owned),
                                        !.ToList = filterToList(@, rcptTo)],
                        rcptTo)]

\* An ownership check that lets every sender through.
checkOwnedLenient(message, sender, idx, rcptTo, emailList) ==
    sanitizeOwned(message, sender, IF idx = 0 THEN sender ELSE emailList[idx], rcptTo)

\* The ownership check on the sender, idx being what IndexFunc returned.
checkOwned(message, sender, idx, rcptTo, emailList) ==
    IF idx = 0 THEN [err |-> ErrAddressNotOwned, message |-> [message EXCEPT !.Sender = sender]]
    ELSE sanitizeOwned(message, sender, emailList[idx], rcptTo)

checkSender(message, sender, rcptTo, emailList) ==
    checkOwned(message, sender, ownedIndex(sender, emailList), rcptTo, emailList)

sanitizeParsedMessage(message, from, rcptTo, emailList) ==
    checkSender(message, senderOrFrom(message, from), rcptTo, emailList)

----------------------------------------------------------------------------
(* The client. A run of sendWithKey is a record w threaded through its steps:
   the mailbox (messages), the log of the client calls made so far (calls), the
   error that ended the run (err, OK while it goes on) and what the steps have
   produced. The call numbered failAt returns an error, and the local step named
   failStep (a key or parser operation) fails. *)

NoFailure == [failAt |-> 0, failStep |-> "none"]

World(msgs, fail) ==
    [messages |-> msgs, calls |-> <<>>, failAt |-> fail.failAt, failStep |-> fail.failStep,
     err |-> OK, message |-> <<>>, parentID |-> <<>>, draftID |-> <<>>, attKeys |-> {},
     addresses |-> <<>>, recipients |-> {}, res |-> <<>>]

\* Whether the next client call returns an error.
Fails(w) == Len(w.calls) + 1 = w.failAt

\* A client call that returned normally.
Logged(w, call, arg) ==
    [w EXCEPT !.calls = Append(@, [call |-> call, arg |-> arg, ok |-> TRUE])]

\* A client call that returned an error, which ends the run with e.
Failed(w, call, arg, e) ==
    [w EXCEPT !.calls = Append(@, [call |-> call, arg |-> arg, ok |-> FALSE]), !.err = e]

\* The metadata a filter selects.
Matching(msgs, filter) ==
    {m \in msgs :
        /\ ("ID" \in DOMAIN filter => m.ID = filter.ID)
        /\ ("ExternalID" \in DOMAIN filter => m.ExternalID = filter.ExternalID)
        /\ ("AddressID" \in DOMAIN filter => m.AddressID = filter.AddressID)}

----------------------------------------------------------------------------
(* getParentID *)

\* strings.Contains(ref, message.InternalIDDomain)
IsInternal(ref) == Contains(ref, InternalIDDomain)

\* strings.TrimSuffix(ref, "@" + message.InternalIDDomain)
TrimInternal(ref) ==
    IF Len(ref) >= 2 /\ SubSeq(ref, Len(ref) - 1, Len(ref)) = <<"@", InternalIDDomain>>
    THEN SubSeq(ref, 1, Len(ref) - 2)
    ELSE ref

RECURSIVE internalRefs(_)
internalRefs(references) ==
    IF references = <<>> THEN <<>>
    ELSE (IF IsInternal(Head(references)) THEN <<TrimInternal(Head(references))>> ELSE <<>>)
         \o internalRefs(Tail(references))

RECURSIVE externalRefs(_)
externalRefs(references) ==
    IF references = <<>> THEN <<>>
    ELSE (IF IsInternal(Head(references)) THEN <<>> ELSE <<Head(references)>>)
         \o externalRefs(Tail(references))

\* A filter that names the address in either mode.
withAddressAlways(filter, id, mode) == filter @@ [AddressID |-> id]

\* filter["AddressID"] = []string{addrID} in split mode.
withAddress(filter, id, mode) ==
    IF mode = SplitMode THEN filter @@ [AddressID |-> id] ELSE filter

\* client.DeleteMessage(ctx, metadata.ID)
deleteMessage(w, md) ==
    IF Fails(w) THEN Failed(w, "DeleteMessage", md.ID, ErrDelete)
    ELSE [Logged(w, "DeleteMessage", md.ID) EXCEPT !.messages = @ \ {md}]

\* A loop body that leaves the drafts it meets on the server.
visitMetadataKeepDrafts(w, md) ==
    IF ~md.draft THEN [w EXCEPT !.parentID = md.ID] ELSE w

\* A loop body that deletes whatever the lookup returned.
visitMetadataDeleteAll(w, md) ==
    deleteMessage(IF md.draft THEN w ELSE [w EXCEPT !.parentID = md.ID], md)

\* A loop body that keeps the first parent it recorded.
visitMetadataFirst(w, md) ==
    IF md.draft THEN deleteMessage(w, md)
    ELSE IF w.parentID = <<>> THEN [w EXCEPT !.parentID = md.ID] ELSE w

\* The body of the loop over the metadata of one internal reference.
visitMetadata(w, md) ==
    IF ~md.draft THEN [w EXCEPT !.parentID = md.ID] ELSE deleteMessage(w, md)

\* The loop over the metadata of one internal reference, in the order the server
\* returned them.
RECURSIVE rangeMetadata(_, _)
rangeMetadata(w, metadata) ==
    IF metadata = <<>> \/ w.err # OK THEN w
    ELSE rangeMetadata(visitMetadata(w, Head(metadata)), Tail(metadata))

\* The orders in which the server may return a set of metadata.
ListsOf(set) ==
    {l \in [1..Cardinality(set) -> set] : \A i, j \in DOMAIN l : l[i] = l[j] => i = j}

\* An ID names one message at most, so the server's order leaves nothing open.
AsList(set) == CHOOSE l \in ListsOf(set) : TRUE

\* One internal reference: GetAllMessageMetadata, then the loop over its result.
lookupInternal(w, filter) ==
    IF Fails(w) THEN Failed(w, "GetAllMessageMetadata", filter, ErrMetadata)
    ELSE rangeMetadata(Logged(w, "GetAllMessageMetadata", filter),
                       AsList(Matching(w.messages, filter)))

\* for _, internal := range internal
RECURSIVE rangeInternal(_, _, _, _)
rangeInternal(w, id, mode, internal) ==
    IF internal = <<>> \/ w.err # OK THEN w
    ELSE rangeInternal(lookupInternal(w, withAddress([ID |-> Head(internal)], id, mode)),
                       id, mode, Tail(internal))

\* A lookup that takes any match whenever there is one.
acceptAny(w, metadata) ==
    IF Cardinality(metadata) >= 1
    THEN [w EXCEPT !.parentID = (CHOOSE m \in metadata : TRUE).ID]
    ELSE w

\* if len(metadata) == 1 { parentID = metadata[0].ID }
acceptUnique(w, metadata) ==
    IF Cardinality(metadata) = 1
    THEN [w EXCEPT !.parentID = (CHOOSE m \in metadata : TRUE).ID]
    ELSE w

\* The lookup of the last external reference.
lookupExternal(w, filter) ==
    IF Fails(w) THEN Failed(w, "GetAllMessageMetadata", filter, ErrMetadata)
    ELSE acceptUnique(Logged(w, "GetAllMessageMetadata", filter),
                      Matching(w.messages, filter))

\* if parentID == "" && len(external) > 0
tryExternal(w, id, mode, external) ==
    IF w.err = OK /\ w.parentID = <<>> /\ Len(external) > 0
    THEN lookupExternal(w, withAddress([ExternalID |-> external[Len(external)]], id, mode))
    ELSE w

\* An error returns the empty parent.
returnParent(w) == IF w.err # OK THEN [w EXCEPT !.parentID = <<>>] ELSE w

getParentID(w, id, mode, references) ==
    returnParent(
        tryExternal(rangeInternal([w EXCEPT !.parentID = <<>>], id, mode,
                                  internalRefs(references)),
                    id, mode, externalRefs(references)))

----------------------------------------------------------------------------
(* createDraftWithAttachments, getRecipients, sendWithKey *)

NewIDs == << <<"n1">>, <<"n2">>, <<"n3">>, <<"n4">> >>

\* The ID the server gives the next draft.
NewID(msgs) ==
    NewIDs[CHOOSE i \in 1..Len(NewIDs) :
               /\ NewIDs[i] \notin {m.ID : m \in msgs}
               /\ \A j \in 1..(i - 1) : NewIDs[j] \in {m.ID : m \in msgs}]

\* An upload whose error is dropped.
uploadAttachmentLenient(w, att) ==
    IF Fails(w)
    THEN [Failed(w, "UploadAttachment", [MessageID |-> w.draftID, Filename |-> att],
                 ErrAttachment) EXCEPT !.err = OK]
    ELSE [Logged(w, "UploadAttachment", [MessageID |-> w.draftID, Filename |-> att])
            EXCEPT !.attKeys = @ \cup {<<w.draftID, att>>}]

\* One attachment: sign and encrypt (local), UploadAttachment, then the session
\* key under the ID the server gave the attachment.
uploadAttachment(w, att) ==
    IF w.failStep = "attachment" THEN [w EXCEPT !.err = ErrAttachment]
    ELSE IF Fails(w)
    THEN Failed(w, "UploadAttachment", [MessageID |-> w.draftID, Filename |-> att],
                ErrAttachment)
    ELSE [Logged(w, "UploadAttachment", [MessageID |-> w.draftID, Filename |-> att])
            EXCEPT !.attKeys = @ \cup {<<w.draftID, att>>}]

\* createAttachments, one attachment after the other; the first failure ends it.
RECURSIVE createAttachments(_, _)
createAttachments(w, attachments) ==
    IF attachments = <<>> \/ w.err # OK THEN w
    ELSE createAttachments(uploadAttachment(w, Head(attachments)), Tail(attachments))

\* A request that leaves the parent out.
draftReqNoParent(message, parentID) ==
    [Sender |-> message.Sender, ToList |-> message.ToList, CCList |-> message.CCList,
     BCCList |-> message.BCCList, ParentID |-> <<>>]

\* liteapi.CreateDraftReq
draftReq(message, parentID) ==
    [Sender |-> message.Sender, ToList |-> message.ToList, CCList |-> message.CCList,
     BCCList |-> message.BCCList, ParentID |-> parentID]

\* client.CreateDraft: the server stores a new draft under a new ID.
createDraft(w, req, id) ==
    IF Fails(w) THEN Failed(w, "CreateDraft", req, ErrCreateDraft)
    ELSE [Logged(w, "CreateDraft", req)
            EXCEPT !.draftID = id,
                   !.messages = @ \cup {[ID |-> id, draft |-> TRUE,
                                         ExternalID |-> w.message.ExternalID,
                                         AddressID |-> ""]}]

createDraftWithAttachments(w) ==
    IF w.err # OK THEN w
    ELSE IF w.failStep = "encryptBody" THEN [w EXCEPT !.err = ErrEncryptBody]
    ELSE createAttachments(createDraft(w, draftReq(w.message, w.parentID), NewID(w.messages)),
                           w.message.Attachments)

\* getContactSettings: GetAllContactEmails (the account stores no contact).
getContactSettings(w, recipient) ==
    IF w.err # OK THEN w
    ELSE IF Fails(w) THEN Failed(w, "GetAllContactEmails", recipient, ErrSendPrefs)
    ELSE Logged(w, "GetAllContactEmails", recipient)

\* client.GetPublicKeys
getPublicKeys(w, recipient) ==
    IF Fails(w) THEN Failed(w, "GetPublicKeys", recipient, ErrSendPrefs)
    ELSE Logged(w, "GetPublicKeys", recipient)

\* buildSendPrefs
buildSendPrefs(w) ==
    IF w.err = OK /\ w.failStep = "buildSendPrefs" THEN [w EXCEPT !.err = ErrSendPrefs]
    ELSE w

getSendPrefs(w, recipient) ==
    buildSendPrefs(getContactSettings(getPublicKeys(w, recipient), recipient))

\* parallel.MapContext(addresses, getSendPrefs), one address after the other.
RECURSIVE mapSendPrefs(_, _)
mapSendPrefs(w, addresses) ==
    IF addresses = <<>> \/ w.err # OK THEN w
    ELSE mapSendPrefs(getSendPrefs(w, Head(addresses)), Tail(addresses))

\* recipients[addresses[idx]] = pref: the map is keyed by address.
recipientsMap(w, addresses) ==
    IF w.err # OK THEN w ELSE [w EXCEPT !.recipients = Range(addresses)]

getRecipients(w, addresses) ==
    IF w.err # OK THEN w
    ELSE recipientsMap(mapSendPrefs([w EXCEPT !.addresses = addresses], addresses), addresses)

\* createSendReq
createSendReq(w) ==
    IF w.err = OK /\ w.failStep = "createSendReq" THEN [w EXCEPT !.err = ErrPackages] ELSE w

\* client.SendDraft: the draft is a sent message from now on.
sendDraft(w) ==
    IF w.err # OK THEN w
    ELSE IF Fails(w) THEN Failed(w, "SendDraft", w.draftID, ErrSendDraft)
    ELSE [Logged(w, "SendDraft", w.draftID)
            EXCEPT !.res = w.draftID,
                   !.messages = {IF m.ID = w.draftID THEN [m EXCEPT !.draft = FALSE] ELSE m
                                 : m \in @}]

\* parser.AttachPublicKey
attachPublicKey(w, sett, message) ==
    IF ~sett.AttachPublicKey THEN [w EXCEPT !.message = message]
    ELSE IF w.failStep = "publicKey" THEN [w EXCEPT !.err = ErrPublicKey]
    ELSE [w EXCEPT !.message = [message EXCEPT !.Attachments = Append(@, "publickey")]]

\* message.ParseWithParser
parseWithParser(w) ==
    IF w.err = OK /\ w.failStep = "parse" THEN [w EXCEPT !.err = ErrParse] ELSE w

\* The call of sanitizeParsedMessage.
sanitized(w, san) == [w EXCEPT !.err = san.err, !.message = san.message]

sanitizeStep(w, from, rcptTo, emailList) ==
    IF w.err # OK THEN w
    ELSE sanitized(w, sanitizeParsedMessage(w.message, from, rcptTo, emailList))

\* A call of getParentID that goes on without a parent when the lookup fails.
parentStepLenient(w, id, mode) ==
    IF w.err # OK THEN w
    ELSE [getParentID(w, id, mode, w.message.References) EXCEPT !.err = OK]

\* The call of getParentID.
parentStep(w, id, mode) ==
    IF w.err # OK THEN w ELSE getParentID(w, id, mode, w.message.References)

\* The call of getRecipients.
recipientsStep(w) ==
    IF w.err # OK THEN w ELSE getRecipients(w, Recipients(w.message))

sendWithKey(w, id, mode, sett, from, rcptTo, emailList, message) ==
    sendDraft(
      createSendReq(
        recipientsStep(
          createDraftWithAttachments(
            parentStep(
              sanitizeStep(parseWithParser(attachPublicKey(w, sett, message)),
                           from, rcptTo, emailList),
              id, mode)))))

----------------------------------------------------------------------------
(* The session *)

\* The drafts the mailbox takes before the model stops issuing DATA.
MaxDrafts == 1

AddrIDs == {"id1", "id2"}

\* events.MessageSent
MessageSent(uid, aid, mid) ==
    [type |-> "MessageSent", UserID |-> uid, AddressID |-> aid, MessageID |-> mid]

\* for addrID, email := range session.emails { if EqualFold(...) { fromAddrID = addrID } }:
\* the IDs the loop may leave in fromAddrID (the map is ranged over in any order).
rangeMatch(current, emailMap, address) ==
    LET hits == {id \in DOMAIN emailMap : EqualFold(address, emailMap[id])}
    IN  IF hits = {} THEN {current} ELSE hits

\* A check of the options that forgets the Auth parameter.
mailRefusedNoAuth(opts, active) == opts.RequireTLS \/ opts.UTF8

\* The options MAIL refuses.
mailRefused(opts, active) ==
    \/ opts.RequireTLS
    \/ opts.UTF8
    \/ (opts.Auth # NIL /\ opts.Auth # Empty /\ opts.Auth # active)

\* What Mail returns once the return path has been looked up.
mailReturn(newFrom) == IF newFrom = "" THEN ErrInvalidReturnPath ELSE OK

\* A reset that keeps the recipients.
clearFromOnly ==
    /\ fromAddrID' = ""
    /\ UNCHANGED to

\* Clear the from and to fields.
clearFields ==
    /\ fromAddrID' = ""
    /\ to' = <<>>

\* A Reset that clears the session's address as well.
ResetAddress ==
    /\ clearFields
    /\ addrID' = ""
    /\ op' = [name |-> "Reset"]
    /\ err' = OK
    /\ calls' = <<>>
    /\ rcpts' = <<>>
    /\ UNCHANGED <<userID, addrMode, emails, settings, addrKRs, eventCh, messages, parsed,
                   flight, mapVars, pool>>

Reset ==
    /\ clearFields
    /\ op' = [name |-> "Reset"]
    /\ err' = OK
    /\ calls' = <<>>
    /\ rcpts' = <<>>
    /\ UNCHANGED <<sessionConst, eventCh, messages, parsed, flight, mapVars, pool>>

\* defer session.Reset(); return nil
Logout ==
    /\ clearFields
    /\ op' = [name |-> "Logout"]
    /\ err' = OK
    /\ calls' = <<>>
    /\ rcpts' = <<>>
    /\ UNCHANGED <<sessionConst, eventCh, messages, parsed, flight, mapVars, pool>>

Mail(from, opts) ==
    /\ op' = [name |-> "Mail", from |-> from, opts |-> opts]
    /\ calls' = <<>>
    /\ IF mailRefused(opts, Lookup(emails, addrID))
       THEN /\ err' = ErrNotImplemented
            /\ UNCHANGED fromAddrID
       ELSE \E newFrom \in rangeMatch(fromAddrID, emails, from) :
                /\ fromAddrID' = newFrom
                /\ err' = mailReturn(newFrom)
    /\ rcpts' = <<>>
    /\ UNCHANGED <<sessionConst, to, eventCh, messages, parsed, flight, mapVars, pool>>

\* A Rcpt that appends whatever it is given, present or not.
RcptAppend(rcpt) ==
    /\ op' = [name |-> "Rcpt", to |-> rcpt]
    /\ calls' = <<>>
    /\ IF rcpt = Empty
       THEN /\ err' = ErrInvalidRecipient
            /\ UNCHANGED to
       ELSE /\ err' = OK
            /\ to' = Append(to, rcpt)
    /\ rcpts' = <<>>
    /\ UNCHANGED <<sessionConst, fromAddrID, eventCh, messages, parsed, flight, mapVars, pool>>

\* A Rcpt that takes the empty address as well.
RcptUnchecked(rcpt) ==
    /\ op' = [name |-> "Rcpt", to |-> rcpt]
    /\ calls' = <<>>
    /\ err' = OK
    /\ to' = IF ~Contains(to, rcpt) THEN Append(to, rcpt) ELSE to
    /\ rcpts' = <<>>
    /\ UNCHANGED <<sessionConst, fromAddrID, eventCh, messages, parsed, flight, mapVars, pool>>

Rcpt(rcpt) ==
    /\ op' = [name |-> "Rcpt", to |-> rcpt]
    /\ calls' = <<>>
    /\ IF rcpt = Empty
       THEN /\ err' = ErrInvalidRecipient
            /\ UNCHANGED to
       ELSE /\ err' = OK
            /\ to' = IF ~Contains(to, rcpt) THEN Append(to, rcpt) ELSE to
    /\ rcpts' = <<>>
    /\ UNCHANGED <<sessionConst, fromAddrID, eventCh, messages, parsed, flight, mapVars, pool>>

\* getMessageSender: the first address of the From header, which is also what
\* the parsed message carries as Sender.
getMessageSender(message) ==
    IF message.Sender = NIL THEN [address |-> Empty, ok |-> FALSE]
    ELSE [address |-> message.Sender, ok |-> TRUE]

\* maps.Values(session.emails): the emails in any order.
mapValues(emailMap) ==
    LET n == Cardinality(DOMAIN emailMap)
        orders == {p \in [1..n -> DOMAIN emailMap] : \A i, j \in 1..n : p[i] = p[j] => i = j}
    IN  {[i \in 1..n |-> emailMap[p[i]]] : p \in orders}

\* The steps of a Data that fail on their own (parser and key operations).
LocalSteps == {"parser", "firstKey", "publicKey", "parse", "encryptBody", "attachment",
               "buildSendPrefs", "createSendReq"}

\* One failure at most decides a Data: its first error ends it. A local step
\* fails only where the message has it (a key to attach, an attachment to sign).
Failures(nCalls, sett, message) ==
    {[failAt |-> k, failStep |-> "none"] : k \in 0..nCalls}
        \cup {[failAt |-> 0, failStep |-> s] :
                s \in {x \in LocalSteps :
                          /\ x = "publicKey" => sett.AttachPublicKey
                          /\ x = "attachment" =>
                                (sett.AttachPublicKey \/ message.Attachments # <<>>)}}

\* An event for every Data, sent or not.
enqueueAlways(ch, uid, aid, w) == Append(ch, MessageSent(uid, aid, w.res))

\* The event channel after sendWithKey has returned w.
enqueueSent(ch, uid, aid, w) ==
    IF w.err = OK THEN Append(ch, MessageSent(uid, aid, w.res)) ELSE ch

\* The return path Data goes on with: the header sender's address when it is owned.
dataFrom(current, emailMap, message) ==
    LET sender == getMessageSender(message)
    IN  IF sender.ok THEN rangeMatch(current, emailMap, sanitizeEmail(sender.address))
        ELSE {current}

Early(e, from) ==
    [fromAddrID |-> from, err |-> e, messages |-> messages, calls |-> <<>>,
     eventCh |-> eventCh, rcpts |-> <<>>]

\* session.eventCh.Enqueue(events.MessageSent{...}), logged after the client calls.
enqueued(w) ==
    IF w.err = OK THEN Append(w.calls, [call |-> "Enqueue", arg |-> w.res, ok |-> TRUE])
    ELSE w.calls

\* What Data leaves behind once sendWithKey has returned w.
afterSend(newFrom, w) ==
    [fromAddrID |-> newFrom, err |-> w.err, messages |-> w.messages, calls |-> enqueued(w),
     eventCh |-> enqueueSent(eventCh, userID, addrID, w), rcpts |-> w.addresses]

\* Data from the keyring lookup on, newFrom being the return path it goes on with.
dataWithFrom(newFrom, message, fail) ==
    IF newFrom \notin addrKRs THEN {Early(ErrMissingAddrKey, newFrom)}
    ELSE IF fail.failStep = "firstKey" THEN {Early(ErrFirstKey, newFrom)}
    ELSE {afterSend(newFrom,
                    sendWithKey(World(messages, fail), addrID, addrMode, settings,
                                sanitizeEmail(Lookup(emails, newFrom)), to, emailList,
                                message))
          : emailList \in mapValues(emails)}

\* A Data that creates the parser before it looks at the envelope.
DataOutcomesParserFirst(message, fail) ==
    IF fail.failStep = "parser" THEN {Early(ErrParser, fromAddrID)}
    ELSE IF fromAddrID = "" THEN {Early(ErrInvalidReturnPath, fromAddrID)}
    ELSE IF Len(to) = 0 THEN {Early(ErrInvalidRecipient, fromAddrID)}
    ELSE UNION {dataWithFrom(newFrom, message, fail)
                : newFrom \in dataFrom(fromAddrID, emails, message)}

\* Everything a Data of `message` under failure `fail` may leave behind.
DataOutcomes(message, fail) ==
    IF fromAddrID = "" THEN {Early(ErrInvalidReturnPath, fromAddrID)}
    ELSE IF Len(to) = 0 THEN {Early(ErrInvalidRecipient, fromAddrID)}
    ELSE IF fail.failStep = "parser" THEN {Early(ErrParser, fromAddrID)}
    ELSE UNION {dataWithFrom(newFrom, message, fail)
                : newFrom \in dataFrom(fromAddrID, emails, message)}

\* The number of client calls of a Data that nothing fails.
callCount(message) ==
    LET o == CHOOSE o \in DataOutcomes(message, NoFailure) : TRUE
    IN  Len(o.calls)

Data(message) ==
    /\ Cardinality({m \in messages : m.ID \in Range(NewIDs)}) < MaxDrafts
    /\ \E fail \in Failures(callCount(message), settings, message) :
       \E o \in DataOutcomes(message, fail) :
          /\ fromAddrID' = o.fromAddrID
          /\ err' = o.err
          /\ messages' = o.messages
          /\ calls' = o.calls
          /\ eventCh' = o.eventCh
          /\ rcpts' = o.rcpts
    /\ op' = [name |-> "Data", message |-> message]
    /\ UNCHANGED <<sessionConst, to, parsed, flight, mapVars, pool>>

----------------------------------------------------------------------------
(* The session specification *)

RefD1 == <<"d1", "@", InternalIDDomain>>
RefM1 == <<"m1", "@", InternalIDDomain>>
RefE1 == <<"e1">>

InitialMessages ==
    {[ID |-> <<"m1">>, draft |-> FALSE, ExternalID |-> <<"e1">>, AddressID |-> "id1"],
     [ID |-> <<"m2">>, draft |-> FALSE, ExternalID |-> <<"e1">>, AddressID |-> "id2"],
     [ID |-> <<"d1">>, draft |-> TRUE, ExternalID |-> <<>>, AddressID |-> "id1"]}

Plain ==
    [Sender |-> NIL, ToList |-> <<>>, CCList |-> <<>>, BCCList |-> <<>>,
     References |-> <<>>, ExternalID |-> <<>>, Attachments |-> <<>>]

\* The messages a client submits: Plain, and Plain with one header changed.
DataMessages ==
    {[Plain EXCEPT !.Sender = x] : x \in {NIL, alice, aliceWork, Bob, Mallory}}
        \cup {[Plain EXCEPT !.ToList = <<Rx>>], [Plain EXCEPT !.CCList = <<Qx>>],
              [Plain EXCEPT !.BCCList = <<Rx>>], [Plain EXCEPT !.Attachments = <<"a.txt">>]}
        \cup {[Plain EXCEPT !.References = x] : x \in {<<RefD1>>, <<RefM1>>, <<RefD1, RefE1>>}}

MailFroms == {alice, Bob, Mallory}

MailOptions == [RequireTLS : BOOLEAN, UTF8 : BOOLEAN, Auth : {NIL, Empty, Alice, Bob}]

RcptArgs == {Rx, Qx, Empty}

\* The sessions newSMTPSession is called for: a combined-mode account whose
\* addresses all have keys, and a split-mode session of the second address on an
\* account whose second keyring failed to unlock.
Configs ==
    {[addrID |-> "id1", addrMode |-> CombinedMode, addrKRs |-> AddrIDs,
      settings |-> [AttachPublicKey |-> FALSE]],
     [addrID |-> "id2", addrMode |-> SplitMode, addrKRs |-> {"id1"},
      settings |-> [AttachPublicKey |-> TRUE]]}

Init ==
    /\ userID = "u1"
    /\ \E c \in Configs :
        /\ addrID = c.addrID
        /\ addrMode = c.addrMode
        /\ settings = c.settings
        /\ addrKRs = c.addrKRs
    /\ emails = [id \in AddrIDs |-> IF id = "id1" THEN Alice ELSE Bob]
    /\ fromAddrID = ""
    /\ to = <<>>
    /\ eventCh = <<>>
    /\ messages = InitialMessages
    /\ op = [name |-> "new"]
    /\ err = OK
    /\ calls = <<>>
    /\ rcpts = <<>>
    /\ flight = IdleFlight
    /\ safeMap = NewMap
    /\ mapThreads = IdleThreads
    /\ pool = IdlePool
    /\ parsed = <<>>

Next ==
    \/ Reset
    \/ Logout
    \/ \E from \in MailFroms, opts \in MailOptions : Mail(from, opts)
    \/ \E rcpt \in RcptArgs : Rcpt(rcpt)
    \/ \E message \in DataMessages : Data(message)

Spec == Init /\ [][Next]_vars

----------------------------------------------------------------------------
(* The envelope: the session commands with recipients that differ in case
   only, and one message. *)

RX == <<"R", "@", "x">>

EnvelopeArgs == {Rx, RX, Qx, Empty}

NoOptions == [RequireTLS |-> FALSE, UTF8 |-> FALSE, Auth |-> NIL]

NextEnvelope ==
    \/ Reset
    \/ Logout
    \/ \E from \in {alice, Mallory} : Mail(from, NoOptions)
    \/ \E rcpt \in EnvelopeArgs : Rcpt(rcpt)
    \/ Data(Plain)

SpecEnvelope == Init /\ [][NextEnvelope]_vars

----------------------------------------------------------------------------
(* sanitizeParsedMessage on its own: Init draws a parsed message and an
   envelope, Sanitize applies the function. *)

MaxToList == 2
MaxCcList == 1

Zx == <<"z", "@", "x">>                            \* never an envelope recipient

\* The sequences over set of length n at most.
SeqsUpTo(set, n) == UNION {[1..k -> set] : k \in 0..n}

\* What a From header may carry.
Senders == {NIL, Empty, alice, aliceWork, aliceTwo, <<"a", "+", "@", "s">>, <<"a">>, Bob, Mallory}

\* The envelopes Rcpt builds from r@x and q@x (no duplicate, never empty at Data).
Envelopes == {<<Rx>>, <<Rx, Qx>>, <<Qx, Rx>>}

InitSanitize ==
    /\ userID = "u1"
    /\ addrID = "id1"
    /\ addrMode = CombinedMode
    /\ emails = [id \in AddrIDs |-> IF id = "id1" THEN Alice ELSE Bob]
    /\ settings = [AttachPublicKey |-> FALSE]
    /\ addrKRs = AddrIDs
    /\ fromAddrID = ""
    /\ to = <<>>
    /\ eventCh = <<>>
    /\ messages = InitialMessages
    /\ op = [name |-> "new"]
    /\ err = OK
    /\ calls = <<>>
    /\ rcpts = <<>>
    /\ flight = IdleFlight
    /\ safeMap = NewMap
    /\ mapThreads = IdleThreads
    /\ pool = IdlePool
    /\ \E sender \in Senders, toList \in SeqsUpTo({Rx, Qx, Zx}, MaxToList),
          ccList, bccList \in SeqsUpTo({Rx, Qx, Zx}, MaxCcList),
          from \in {sanitizeEmail(emails[id]) : id \in AddrIDs},
          rcptTo \in Envelopes, emailList \in mapValues(emails) :
          /\ (sender \notin {NIL, Empty} => from = Alice)
          /\ parsed = [message |-> [Plain EXCEPT !.Sender = sender, !.ToList = toList,
                                                !.CCList = ccList, !.BCCList = bccList],
                       from |-> from, to |-> rcptTo, emails |-> emailList,
                       done |-> FALSE, out |-> [err |-> OK, message |-> Plain]]

Sanitize ==
    /\ ~parsed.done
    /\ parsed' = [parsed EXCEPT
                    !.done = TRUE,
                    !.out = sanitizeParsedMessage(parsed.message, parsed.from, parsed.to,
                                                  parsed.emails)]
    /\ UNCHANGED <<sessionConst, fromAddrID, to, eventCh, messages, op, err, calls, rcpts, flight, mapVars, pool>>

NextSanitize == Sanitize

SpecSanitize == InitSanitize /\ [][NextSanitize]_vars

----------------------------------------------------------------------------
(* getParentID on its own: Init draws a mailbox, GetParent applies the function
   to a References header under one failure at most. op keeps the header, the
   mailbox the call met and the parent it returned. *)

MaxRefs == 2

RefD2 == <<"d2", "@", InternalIDDomain>>
RefM2 == <<"m2", "@", InternalIDDomain>>
RefE2 == <<"e2">>

\* The messages of InitialMessages and a draft that carries an external ID.
ParentMessages ==
    InitialMessages
        \cup {[ID |-> <<"d2">>, draft |-> TRUE, ExternalID |-> <<"e2">>, AddressID |-> "id2"]}

ReferenceHeaders == SeqsUpTo({RefD1, RefD2, RefM1, RefM2, RefE1, RefE2}, MaxRefs)

\* A header of n references makes 2n + 1 client calls at most.
ParentFailures == {[failAt |-> k, failStep |-> "none"] : k \in 0..(2 * MaxRefs + 1)}

InitParent ==
    /\ userID = "u1"
    /\ \E c \in Configs :
        /\ addrID = c.addrID
        /\ addrMode = c.addrMode
        /\ settings = c.settings
        /\ addrKRs = c.addrKRs
    /\ emails = [id \in AddrIDs |-> IF id = "id1" THEN Alice ELSE Bob]
    /\ fromAddrID = ""
    /\ to = <<>>
    /\ eventCh = <<>>
    /\ messages \in SUBSET ParentMessages
    /\ op = [name |-> "new"]
    /\ err = OK
    /\ calls = <<>>
    /\ rcpts = <<>>
    /\ flight = IdleFlight
    /\ safeMap = NewMap
    /\ mapThreads = IdleThreads
    /\ pool = IdlePool
    /\ parsed = <<>>

parentOutcome(w, references, before) ==
    /\ op' = [name |-> "getParentID", references |-> references,
              parentID |-> w.parentID, before |-> before]
    /\ messages' = w.messages
    /\ calls' = w.calls
    /\ err' = w.err

GetParent(references, fail) ==
    /\ op.name = "new"
    /\ parentOutcome(getParentID(World(messages, fail), addrID, addrMode, references),
                     references, messages)
    /\ UNCHANGED <<sessionConst, fromAddrID, to, eventCh, rcpts, parsed, flight, mapVars, pool>>

NextParent == \E references \in ReferenceHeaders, fail \in ParentFailures :
                  GetParent(references, fail)

SpecParent == InitParent /\ [][NextParent]_vars

----------------------------------------------------------------------------
(* sendWithKey step by step: a Data whose sendWithKey runs one stage at a time
   while the client may disconnect. The stages are those that are handed ctx;
   flight.w is the world they thread, flight.cancelled the cancelled contexts. *)

ErrCanceled == "ErrCanceled"

\* ctx, cancel := context.WithCancel(context.Background()): the parent of the
\* context of sendWithKey, and of the scope of the connection's handler.
ContextParent == [send |-> "Background", conn |-> "Background"]

\* ctx.Done(): the context or one of its ancestors has been cancelled.
RECURSIVE Done(_, _)
Done(ctx, cancelled) ==
    \/ ctx \in cancelled
    \/ ctx # "Background" /\ Done(ContextParent[ctx], cancelled)

Stages == <<"getParentID", "createDraftWithAttachments", "getRecipients", "createSendReq",
            "SendDraft">>

\* createSendReq is the one stage that is handed no context.
usesContext(pc) == pc # "createSendReq"

stageOf(w, pc, id, mode) ==
    CASE pc = "getParentID" -> parentStep(w, id, mode)
      [] pc = "createDraftWithAttachments" -> createDraftWithAttachments(w)
      [] pc = "getRecipients" -> recipientsStep(w)
      [] pc = "createSendReq" -> createSendReq(w)
      [] pc = "SendDraft" -> sendDraft(w)

\* A stage under ctx: its client calls return the context's error once ctx is done.
runStage(f, id, mode) ==
    IF usesContext(f.pc) /\ Done("send", f.cancelled) THEN [f.w EXCEPT !.err = ErrCanceled]
    ELSE stageOf(f.w, f.pc, id, mode)

nextStage(pc, w) ==
    IF w.err # OK \/ pc = "SendDraft" THEN "return"
    ELSE Stages[(CHOOSE i \in 1..Len(Stages) : Stages[i] = pc) + 1]

FlightMessages ==
    {Plain, [Plain EXCEPT !.References = <<RefD1>>], [Plain EXCEPT !.Attachments = <<"a.txt">>]}

\* Data up to the first stage of sendWithKey that is handed ctx.
BeginData(message) ==
    /\ flight.pc = "idle" /\ flight.connected
    /\ Cardinality({m \in messages : m.ID \in Range(NewIDs)}) < MaxDrafts
    /\ fromAddrID # "" /\ Len(to) > 0
    /\ fromAddrID \in addrKRs
    /\ \E emailList \in mapValues(emails) :
          flight' = [flight EXCEPT
                       !.pc = "getParentID",
                       !.cancelled = @ \ {"send"},
                       !.w = sanitizeStep(
                                parseWithParser(
                                    attachPublicKey(World(messages, NoFailure), settings, message)),
                                sanitizeEmail(Lookup(emails, fromAddrID)), to, emailList)]
    /\ op' = [name |-> "sendWithKey", message |-> message]
    /\ err' = OK
    /\ calls' = <<>>
    /\ rcpts' = <<>>
    /\ UNCHANGED <<sessionConst, fromAddrID, to, eventCh, messages, parsed, mapVars, pool>>

stepOutcome(f, w) ==
    /\ flight' = [f EXCEPT !.w = w, !.pc = nextStage(f.pc, w)]
    /\ messages' = w.messages
    /\ calls' = w.calls

\* One stage of sendWithKey.
StepData ==
    /\ flight.pc \in Range(Stages)
    /\ stepOutcome(flight, runStage(flight, addrID, addrMode))
    /\ UNCHANGED <<sessionConst, fromAddrID, to, eventCh, op, err, rcpts, parsed, mapVars, pool>>

\* defer cancel(), the return of sendWithKey and the rest of Data.
ReturnData ==
    /\ flight.pc = "return"
    /\ flight' = [flight EXCEPT !.pc = "idle", !.cancelled = @ \cup {"send"}, !.w = <<>>]
    /\ err' = flight.w.err
    /\ calls' = enqueued(flight.w)
    /\ eventCh' = enqueueSent(eventCh, userID, addrID, flight.w)
    /\ rcpts' = flight.w.addresses
    /\ op' = [name |-> "Data", message |-> op.message]
    /\ UNCHANGED <<sessionConst, fromAddrID, to, messages, parsed, mapVars, pool>>

\* The client drops the connection: the scope of its handler is cancelled.
Disconnect ==
    /\ flight.connected
    /\ flight' = [flight EXCEPT !.connected = FALSE, !.cancelled = @ \cup {"conn"}]
    /\ UNCHANGED <<sessionConst, fromAddrID, to, eventCh, messages, op, err, calls, rcpts,
                   parsed, mapVars, pool>>

Connected == flight.pc = "idle" /\ flight.connected

NextCancel ==
    \/ Connected /\ Mail(alice, NoOptions)
    \/ Connected /\ \E rcpt \in {Rx, Qx} : Rcpt(rcpt)
    \/ \E message \in FlightMessages : BeginData(message)
    \/ StepData
    \/ ReturnData
    \/ Disconnect

SpecCancel == Init /\ [][NextCancel]_vars

----------------------------------------------------------------------------
(* The package assembler on its own. createSendReq is defined outside the files
   modelled here: the grouping below follows the description of the assembler. Init is
   the session's, Assemble applies the assembler to the send preferences of up
   to MaxRecipients recipients. *)

MaxRecipients == 2

Schemes == {"internal", "pgp-mime", "pgp-inline", "cleartext-mime", "cleartext-inline", "plain"}

EncryptingSchemes == {"internal", "pgp-mime", "pgp-inline"}

MIMETypes == {"text/plain", "text/html", "multipart/mixed"}

SendPreferences == [scheme : Schemes, mimeType : MIMETypes]

\* The maps getRecipients returns: address -> send preferences.
RecipientMaps ==
    UNION {[addresses -> SendPreferences] :
             addresses \in {a \in SUBSET {Rx, Qx, Zx} : Cardinality(a) <= MaxRecipients}}

\* The (scheme, mimeType) pairs of the recipients.
groupKeys(prefs) == {<<prefs[r].scheme, prefs[r].mimeType>> : r \in DOMAIN prefs}

\* The recipients of one group.
groupMembers(prefs, key) ==
    {r \in DOMAIN prefs : <<prefs[r].scheme, prefs[r].mimeType>> = key}

\* Key packets for every scheme, encrypting or not.
keyPacketsAlways(scheme, recipients) ==
    [i \in 1..Cardinality(recipients) |-> [recipient |-> AsList(recipients)[i]]]

\* The session key re-encrypted to each member when the scheme encrypts.
keyPackets(scheme, recipients) ==
    IF scheme \in EncryptingSchemes
    THEN [i \in 1..Cardinality(recipients) |-> [recipient |-> AsList(recipients)[i]]]
    ELSE <<>>

package(prefs, key) ==
    [scheme |-> key[1], mimeType |-> key[2],
     recipients |-> groupMembers(prefs, key),
     keyPackets |-> keyPackets(key[1], groupMembers(prefs, key))]

\* One package per distinct (scheme, mimeType).
assemblePackages(prefs) == {package(prefs, key) : key \in groupKeys(prefs)}

Assemble(prefs) ==
    /\ op.name = "new"
    /\ op' = [name |-> "createSendReq", recipients |-> prefs, req |-> assemblePackages(prefs)]
    /\ UNCHANGED <<sessionConst, fromAddrID, to, eventCh, messages, err, calls, rcpts, parsed,
                   flight, mapVars, pool>>

NextPackages == \E prefs \in RecipientMaps : Assemble(prefs)

SpecPackages == Init /\ [][NextPackages]_vars

----------------------------------------------------------------------------
(* safe.Map. The map's code is outside the files modelled here; its operations
   follow the description of the ordered map, and the calls and values are those
   of TestSafe_Map. A call takes the lock (Acquire), looks up and invokes its
   visitor (Run), writes (Finish) and unlocks (Release). A goroutine keeps the
   call it made, what it returned, what its visitor was handed (seen) and the
   entries it met. *)

mapHas(mp, key) == Contains(mp.order, key)

\* A Set that moves an updated key to the end.
mapSetMoveToEnd(mp, key, val) ==
    [mp EXCEPT !.data[key] = val,
               !.order = LET keep(k) == k # key IN Append(SelectSeq(@, keep), key)]

\* m.Set(key, val): insert at the end, or update in place.
mapSet(mp, key, val) ==
    [mp EXCEPT !.data[key] = val,
               !.order = IF Contains(@, key) THEN @ ELSE Append(@, key)]

\* A delete that fills the hole with the last entry.
mapDeleteSwap(mp, key) ==
    [mp EXCEPT !.data[key] = NoVal,
               !.order = LET last == @[Len(@)]
                             at == IndexOf(@, key)
                         IN  SubSeq([i \in 1..Len(@) |-> IF i = at THEN last ELSE @[i]],
                                    1, Len(@) - 1)]

\* The removal of an entry: the later entries move down by one.
mapDelete(mp, key) ==
    [mp EXCEPT !.data[key] = NoVal,
               !.order = SubSeq(@, 1, IndexOf(@, key) - 1)
                             \o SubSeq(@, IndexOf(@, key) + 1, Len(@))]

visited(seen) == [ret |-> TRUE, seen |-> <<seen>>]

notVisited == [ret |-> FALSE, seen |-> <<>>]

\* An Index that hands its visitor zero values when idx is out of range.
lookupIndexZero(mp, idx) ==
    IF idx < 0 \/ idx >= Len(mp.order) THEN [ret |-> FALSE, seen |-> <<<<"", "">>>>]
    ELSE visited(<<mp.order[idx + 1], mp.data[mp.order[idx + 1]]>>)

\* m.Index(idx, fn)
lookupIndex(mp, idx) ==
    IF idx < 0 \/ idx >= Len(mp.order) THEN notVisited
    ELSE visited(<<mp.order[idx + 1], mp.data[mp.order[idx + 1]]>>)

\* m.Get(key, fn) and the lookup of m.GetDelete(key, fn)
lookupKey(mp, key) == IF mapHas(mp, key) THEN visited(<<mp.data[key]>>) ELSE notVisited

\* m.Values(fn): a copy of the values in order.
lookupValues(mp) == visited(<<[i \in 1..Len(mp.order) |-> mp.data[mp.order[i]]]>>)

\* What a call returns and what it hands its visitor.
lookup(mp, call) ==
    CASE call.name = "Set" -> [ret |-> TRUE, seen |-> <<>>]
      [] call.name = "Has" -> [ret |-> mapHas(mp, call.key), seen |-> <<>>]
      [] call.name = "Get" -> lookupKey(mp, call.key)
      [] call.name = "GetDelete" -> lookupKey(mp, call.key)
      [] call.name = "Index" -> lookupIndex(mp, call.idx)
      [] call.name = "Values" -> lookupValues(mp)

\* A GetDelete that leaves its key in place.
writtenSetOnly(mp, call) ==
    IF call.name = "Set" THEN mapSet(mp, call.key, call.val) ELSE mp

\* What a call writes.
written(mp, call) ==
    CASE call.name = "Set" -> mapSet(mp, call.key, call.val)
      [] call.name = "GetDelete" /\ mapHas(mp, call.key) -> mapDelete(mp, call.key)
      [] OTHER -> mp

sessionVars ==
    <<sessionConst, fromAddrID, to, eventCh, messages, op, err, calls, rcpts, parsed, flight,
      pool>>

Call(t, call) ==
    /\ mapThreads[t].pc = "idle"
    /\ mapThreads' = [mapThreads EXCEPT ![t] = [@ EXCEPT !.pc = "waiting", !.call = call,
                                                         !.ret = FALSE, !.seen = <<>>]]
    /\ UNCHANGED <<safeMap, sessionVars>>

\* A lock that is taken whoever holds it.
AcquireHeld(t) ==
    /\ mapThreads[t].pc = "waiting"
    /\ safeMap' = [safeMap EXCEPT !.lock = t]
    /\ mapThreads' = [mapThreads EXCEPT ![t].pc = "locked"]
    /\ UNCHANGED sessionVars

\* m.lock.Lock()
Acquire(t) ==
    /\ mapThreads[t].pc = "waiting"
    /\ safeMap.lock = "free"
    /\ safeMap' = [safeMap EXCEPT !.lock = t]
    /\ mapThreads' = [mapThreads EXCEPT ![t].pc = "locked"]
    /\ UNCHANGED sessionVars

ran(thread, mp, result) ==
    [thread EXCEPT !.pc = "visiting", !.ret = result.ret, !.seen = result.seen,
                   !.met = [data |-> mp.data, order |-> mp.order]]

\* The lookup and the visitor, under the lock.
Run(t) ==
    /\ mapThreads[t].pc = "locked"
    /\ mapThreads' = [mapThreads EXCEPT ![t] = ran(@, safeMap, lookup(safeMap, @.call))]
    /\ UNCHANGED <<safeMap, sessionVars>>

\* The write, once the visitor has returned.
Finish(t) ==
    /\ mapThreads[t].pc = "visiting"
    /\ safeMap' = written(safeMap, mapThreads[t].call)
    /\ mapThreads' = [mapThreads EXCEPT ![t].pc = "done"]
    /\ UNCHANGED sessionVars

\* m.lock.Unlock()
Release(t) ==
    /\ mapThreads[t].pc = "done"
    /\ safeMap' = [safeMap EXCEPT !.lock = "free"]
    /\ mapThreads' = [mapThreads EXCEPT ![t].pc = "idle"]
    /\ UNCHANGED sessionVars

MapCall(name, key, val, idx) == [name |-> name, key |-> key, val |-> val, idx |-> idx]

\* The calls of one goroutine: every operation of the test on every key, and
\* Index from below the first entry to the size of a full map.
MapCalls ==
    {MapCall("Set", k, v, 0) : k \in MapKeys, v \in MapVals}
        \cup {MapCall(n, k, "", 0) : n \in {"Has", "Get", "GetDelete"}, k \in MapKeys}
        \cup {MapCall("Index", "", "", i) : i \in (0 - 1)..Cardinality(MapKeys)}
        \cup {MapCall("Values", "", "", 0)}

NextMap ==
    \/ \E call \in MapCalls : Call("t1", call)
    \/ Acquire("t1")
    \/ Run("t1")
    \/ Finish("t1")
    \/ Release("t1")

SpecMap == Init /\ [][NextMap]_vars

\* Two goroutines on one map that holds the first entry of the test. Both may
\* read and delete "a"; the only Set is of another key.
InitShared ==
    /\ userID = "u1"
    /\ \E c \in Configs :
        /\ addrID = c.addrID
        /\ addrMode = c.addrMode
        /\ settings = c.settings
        /\ addrKRs = c.addrKRs
    /\ emails = [id \in AddrIDs |-> IF id = "id1" THEN Alice ELSE Bob]
    /\ fromAddrID = ""
    /\ to = <<>>
    /\ eventCh = <<>>
    /\ messages = InitialMessages
    /\ op = [name |-> "new"]
    /\ err = OK
    /\ calls = <<>>
    /\ rcpts = <<>>
    /\ flight = IdleFlight
    /\ safeMap = mapSet(NewMap, "a", "b")
    /\ mapThreads = IdleThreads
    /\ pool = IdlePool
    /\ parsed = <<>>

SharedCalls ==
    {MapCall("GetDelete", "a", "", 0), MapCall("Get", "a", "", 0),
     MapCall("Set", "b", "c", 0), MapCall("Index", "", "", 0),
     MapCall("Values", "", "", 0)}

NextShared ==
    \E t \in Goroutines :
        \/ \E call \in SharedCalls : Call(t, call)
        \/ Acquire(t)
        \/ Run(t)
        \/ Finish(t)
        \/ Release(t)

SpecShared == InitShared /\ [][NextShared]_vars

----------------------------------------------------------------------------
(* parallel.MapContext as createAttachments and getRecipients call it. The
   library starts min(parallelism, n) goroutines over one cancellable context;
   each takes the next index, returns when there is none or the context is
   cancelled, and otherwise applies the function to the item, storing its
   result at the item's index. The first error cancels the context, and
   MapContext returns once every goroutine has. pool.status is where each item
   is, pool.out what the function returned for it, pool.finished the order in
   which the items completed. *)

NumCPU == 2

MaxItems == 3

\* The parallelism of a pool that starts a goroutine for every item.
parallelismOfItems(items) == Len(items)

\* runtime.NumCPU(), the parallelism both callers ask for.
parallelism(items) == NumCPU

workerCount(items) == IF parallelism(items) > Len(items) THEN Len(items) ELSE parallelism(items)

\* The items a goroutine is working on.
running(p) == {i \in 1..Len(p.items) : p.status[i] \in {"started", "uploaded"}}

pending(p) == {i \in 1..Len(p.items) : p.status[i] = "pending"}

\* i := atomic.AddInt32(&x, 1): the indices are taken in order.
nextIndex(p) == CHOOSE i \in pending(p) : \A j \in pending(p) : i <= j

\* The function returned an error: its goroutine returns it, which cancels the context.
failedItem(p, i, e) ==
    [p EXCEPT !.status[i] = "failed", !.cancelled = TRUE,
              !.err = IF @ = OK THEN e ELSE @, !.workers = @ - 1]

\* out[i], err = f(ctx, in[i]) with no error.
doneItem(p, i, val) ==
    [p EXCEPT !.status[i] = "done", !.out[i].val = val, !.finished = Append(@, i)]

\* SignDetached, EncryptAttachment and client.UploadAttachment, which gives the
\* attachment its ID; under a cancelled context the client returns the
\* context's error.
signEncryptUpload(p, i) ==
    IF p.fail.at = i /\ p.fail.stage \in {"sign", "encrypt"} THEN failedItem(p, i, ErrAttachment)
    ELSE IF p.cancelled THEN failedItem(p, i, ErrCanceled)
    ELSE IF p.fail.at = i /\ p.fail.stage = "upload" THEN failedItem(p, i, ErrAttachment)
    ELSE [p EXCEPT !.status[i] = "uploaded", !.uploads = @ + 1, !.out[i].attID = p.uploads + 1]

\* base64 DecodeString and DecryptSessionKey
decodeDecrypt(p, i) ==
    IF p.fail.at = i /\ p.fail.stage \in {"decode", "decrypt"}
    THEN failedItem(p, i, ErrAttachment)
    ELSE doneItem(p, i, <<"key", p.items[i]>>)

\* getSendPrefs(ctx, client, userKR, settings, address, mimeType)
sendPrefsOf(p, i) ==
    IF p.cancelled THEN failedItem(p, i, ErrCanceled)
    ELSE IF p.fail.at = i THEN failedItem(p, i, ErrSendPrefs)
    ELSE doneItem(p, i, <<"prefs", p.items[i]>>)

\* The next step of the function on item i.
workOn(p, i) ==
    IF p.job = "recipients" THEN sendPrefsOf(p, i)
    ELSE IF p.status[i] = "started" THEN signEncryptUpload(p, i)
    ELSE decodeDecrypt(p, i)

LastIndex(items, x) == CHOOSE i \in DOMAIN items : items[i] = x /\ \A j \in DOMAIN items : items[j] = x => j <= i

\* A map that is returned whether or not the pool failed.
attKeysAnyway(p) ==
    [err |-> OK,
     keys |-> {<<p.out[i].attID, p.out[i].val>> : i \in {j \in DOMAIN p.out : p.status[j] = "done"}}]

\* for _, key := range keys { attKeys[key.attID] = key.key }, or nil and the error.
attKeys(p) ==
    IF p.err # OK THEN [err |-> ErrAttachment, keys |-> {}]
    ELSE [err |-> OK, keys |-> {<<p.out[i].attID, p.out[i].val>> : i \in DOMAIN p.out}]

\* A map that takes the results in the order they completed.
recipientsAsCompleted(p) ==
    IF p.err # OK THEN [err |-> ErrSendPrefs, keys |-> {}]
    ELSE [err |-> OK,
          keys |-> {<<p.items[i], p.out[p.finished[i]].val>> : i \in DOMAIN p.items}]

\* for idx, pref := range prefs { recipients[addresses[idx]] = pref }, or nil and
\* the error; of an address given twice the later entry stays.
recipients(p) ==
    IF p.err # OK THEN [err |-> ErrSendPrefs, keys |-> {}]
    ELSE [err |-> OK,
          keys |-> {<<a, p.out[LastIndex(p.items, a)].val>> : a \in Range(p.items)}]

MapBegin(job, items, fail) ==
    /\ pool.pc = "idle"
    /\ pool' = [pc |-> "running", job |-> job, items |-> items, fail |-> fail,
                status |-> [i \in DOMAIN items |-> "pending"],
                out |-> [i \in DOMAIN items |-> [attID |-> 0, val |-> <<>>]],
                finished |-> <<>>, uploads |-> 0, workers |-> workerCount(items),
                cancelled |-> FALSE, err |-> OK, result |-> [err |-> OK, keys |-> {}]]
    /\ UNCHANGED <<sessionConst, fromAddrID, to, eventCh, messages, op, err, calls, rcpts,
                   parsed, flight, mapVars>>

\* A goroutine between two items takes the next index: it returns when there
\* is none or the context is cancelled, and starts on the item otherwise.
Claim ==
    /\ pool.pc = "running"
    /\ pool.workers > Cardinality(running(pool))
    /\ pool' = IF pending(pool) = {} THEN [pool EXCEPT !.workers = @ - 1]
               ELSE IF pool.cancelled
               THEN [pool EXCEPT !.status[nextIndex(pool)] = "skipped", !.workers = @ - 1]
               ELSE [pool EXCEPT !.status[nextIndex(pool)] = "started"]
    /\ UNCHANGED <<sessionConst, fromAddrID, to, eventCh, messages, op, err, calls, rcpts,
                   parsed, flight, mapVars>>

Work(i) ==
    /\ pool.pc = "running"
    /\ i \in running(pool)
    /\ pool' = workOn(pool, i)
    /\ UNCHANGED <<sessionConst, fromAddrID, to, eventCh, messages, op, err, calls, rcpts,
                   parsed, flight, mapVars>>

\* Every goroutine has returned: MapContext returns, and its caller builds its map.
MapReturn ==
    /\ pool.pc = "running"
    /\ pool.workers = 0
    /\ pool' = [pool EXCEPT !.pc = "returned",
                            !.result = IF pool.job = "recipients" THEN recipients(pool)
                                       ELSE attKeys(pool)]
    /\ UNCHANGED <<sessionConst, fromAddrID, to, eventCh, messages, op, err, calls, rcpts,
                   parsed, flight, mapVars>>

PoolItems(job) ==
    IF job = "recipients" THEN SeqsUpTo({Rx, Qx}, MaxItems)
    ELSE SeqsUpTo({"a.txt", "b.txt"}, MaxItems)

PoolStages(job) ==
    IF job = "recipients" THEN {"prefs"} ELSE {"sign", "encrypt", "upload", "decode", "decrypt"}

PoolFailures(job, items) ==
    {[at |-> 0, stage |-> "none"]}
        \cup {[at |-> i, stage |-> s] : i \in DOMAIN items, s \in PoolStages(job)}

NextPool ==
    \/ \E job \in {"attachments", "recipients"} :
          \E items \in PoolItems(job) :
             \E fail \in PoolFailures(job, items) : MapBegin(job, items, fail)
    \/ Claim
    \/ \E i \in 1..MaxItems : Work(i)
    \/ MapReturn

SpecPool == Init /\ [][NextPool]_vars

----------------------------------------------------------------------------
(* What the claims speak of, stated apart from the code's own helpers. *)

AtCount(address) == Cardinality({i \in 1..Len(address) : address[i] = "@"})

LocalOf(address) == SubSeq(address, 1, IndexOf(address, "@") - 1)

DomainOf(address) == SubSeq(address, IndexOf(address, "@") + 1, Len(address))

\* The local part carries a plus-tag.
HasTag(address) == AtCount(address) = 1 /\ IndexOf(LocalOf(address), "+") > 0

\* The plus-tag: what follows the first "+" of the local part.
TagOf(address) ==
    SubSeq(LocalOf(address), IndexOf(LocalOf(address), "+") + 1, Len(LocalOf(address)))

\* The address with its plus-tag stripped.
Untagged(address) ==
    IF HasTag(address)
    THEN SubSeq(address, 1, IndexOf(address, "+") - 1) \o <<"@">> \o DomainOf(address)
    ELSE address

\* The owned address with the tag of the header address.
Tagged(owned, header) ==
    IF HasTag(header)
    THEN LocalOf(owned) \o <<"+">> \o TagOf(header) \o <<"@">> \o DomainOf(owned)
    ELSE owned

OwnedEmails == {emails[id] : id \in DOMAIN emails}

IsOwned(address) == \E e \in OwnedEmails : EqualFold(e, Untagged(address))

\* The errors of a Data that ends before sanitizeParsedMessage is called.
BeforeSanitize ==
    {ErrInvalidReturnPath, ErrInvalidRecipient, ErrParser, ErrMissingAddrKey, ErrFirstKey,
     ErrPublicKey, ErrParse}

\* The sender sanitizeParsedMessage checks in the last Data.
DataSender ==
    IF op.message.Sender \in {NIL, Empty} THEN Untagged(Lookup(emails, fromAddrID))
    ELSE op.message.Sender

\* The sender sanitizeParsedMessage checks in SpecSanitize.
ParsedSender ==
    IF parsed.message.Sender \in {NIL, Empty} THEN parsed.from ELSE parsed.message.Sender

----------------------------------------------------------------------------
(* The claims *)

\* C1: an accepted DATA resolves send preferences for exactly the envelope
\* recipients: every entry of `to`, and no address outside `to`.
C1_RecipientsAreEnvelope ==
    (op.name = "Data" /\ err = OK) =>
        Range(rcpts) = Range(to)

\* C2: a DATA enqueues one MessageSent{userID, addrID, messageID} exactly when it
\* returns success, right after SendDraft has succeeded, the event naming the
\* message SendDraft sent; a DATA that returns an error enqueues nothing.
C2_EventIffSent ==
    [][op'.name = "Data" =>
         LET n == Len(calls')
             enq == {i \in 1..n : calls'[i].call = "Enqueue"}
         IN  /\ err' = OK =>
                  /\ n >= 2
                  /\ enq = {n}
                  /\ calls'[n - 1].call = "SendDraft" /\ calls'[n - 1].ok
                  /\ eventCh' = Append(eventCh, MessageSent(userID, addrID, calls'[n - 1].arg))
             /\ err' # OK => (enq = {} /\ eventCh' = eventCh)]_vars

C2_Sent == op.name = "Data" /\ err = OK /\ Len(eventCh) = 1

\* C3: a DATA that returns an error leaves fromAddrID, to and the event channel
\* as they were and the mailbox with every message it had, plus at most one new
\* draft.
C3_FailedDataLeavesNoTrace ==
    [][(op'.name = "Data" /\ err' # OK) =>
         /\ fromAddrID' = fromAddrID
         /\ to' = to
         /\ eventCh' = eventCh
         /\ messages \subseteq messages'
         /\ Cardinality(messages' \ messages) <= 1
         /\ \A m \in messages' \ messages : m.draft]_vars

\* C4: when sanitization succeeds, the header sender without its plus-tag equals
\* an owned address case-insensitively, and Sender.address is that owned address
\* with the header's plus-tag (all that follows the first "+") before the "@",
\* or the owned address itself when the header has no tag.
C4_SenderRewritten ==
    (parsed.done /\ parsed.out.err = OK) =>
        \E i \in 1..Len(parsed.emails) :
            /\ EqualFold(parsed.emails[i], Untagged(ParsedSender))
            /\ parsed.out.message.Sender = Tagged(parsed.emails[i], ParsedSender)

\* C5: a DATA whose sender (the header sender, or the envelope address when the
\* header has none) is not owned fails with "address is not owned" before any
\* client call.
C5_NotOwnedAbortsEarly ==
    (op.name = "Data" /\ err \notin BeforeSanitize /\ ~IsOwned(DataSender)) =>
        (err = ErrAddressNotOwned /\ calls = <<>>)

C5_NotOwned ==
    /\ op.name = "Data"
    /\ op.message.Sender = Mallory
    /\ err = ErrAddressNotOwned
    /\ to # <<>>

\* C6 as claimed: BCCList gains exactly the envelope recipients that are in
\* neither ToList nor CCList, in envelope order.
C6_BccAppendedOriginal ==
    (parsed.done /\ parsed.out.err = OK) =>
        LET missing(a) == a \notin Range(parsed.out.message.ToList)
                                    \cup Range(parsed.out.message.CCList)
        IN  parsed.out.message.BCCList
                = parsed.message.BCCList \o SelectSeq(parsed.to, missing)

\* C6 as amended: BCCList gains exactly the envelope recipients that are in none
\* of ToList, CCList and the BCCList the header gave, each once and in envelope
\* order; every envelope recipient then is in ToList, CCList or BCCList.
C6_BccAppended ==
    (parsed.done /\ parsed.out.err = OK) =>
        LET out == parsed.out.message
            missing(a) == a \notin Range(out.ToList) \cup Range(out.CCList)
                                     \cup Range(parsed.message.BCCList)
        IN  /\ out.BCCList = parsed.message.BCCList \o SelectSeq(parsed.to, missing)
            /\ out.CCList = parsed.message.CCList
            /\ Range(parsed.to) \subseteq
                   Range(out.ToList) \cup Range(out.CCList) \cup Range(out.BCCList)

C6_BccSynthesis ==
    /\ parsed.done /\ parsed.out.err = OK
    /\ parsed.to = <<Rx, Qx>>
    /\ parsed.message.ToList = <<>> /\ parsed.message.CCList = <<>>
    /\ parsed.message.BCCList = <<Rx>>
    /\ parsed.out.message.BCCList = <<Rx, Qx>>

\* C7: sanitization succeeds whenever the sender is owned, whatever ToList holds,
\* and ToList then is the header's ToList restricted to the addresses of the
\* envelope, in the header's order.
C7_ToListFiltered ==
    parsed.done =>
        LET inEnvelope(a) == a \in Range(parsed.to)
        IN  /\ parsed.out.err = OK <=> IsOwned(ParsedSender)
            /\ parsed.out.err = OK =>
                   parsed.out.message.ToList = SelectSeq(parsed.message.ToList, inEnvelope)

C7_Dropped ==
    /\ parsed.done /\ parsed.out.err = OK
    /\ parsed.to = <<Rx>>
    /\ parsed.message.ToList = <<Zx, Rx>>
    /\ parsed.out.message.ToList = <<Rx>>

\* C8: Reset and Logout leave fromAddrID and to empty and no other field of the
\* session changed.
C8_ResetClears ==
    [][op'.name \in {"Reset", "Logout"} =>
         /\ fromAddrID' = ""
         /\ to' = <<>>
         /\ UNCHANGED <<sessionConst, eventCh>>]_vars

C8_LogoutAfterSend ==
    /\ op.name = "Logout"
    /\ Len(eventCh) = 1
    /\ fromAddrID = "" /\ to = <<>>

\* C9: a MAIL whose options are accepted and whose address equals no owned
\* email case-insensitively returns ErrInvalidReturnPath, in every session state.
C9_UnknownReturnPathRejected ==
    (/\ op.name = "Mail"
     /\ ~op.opts.RequireTLS /\ ~op.opts.UTF8
     /\ op.opts.Auth \in {NIL, Empty, Lookup(emails, addrID)}
     /\ \A e \in OwnedEmails : ~EqualFold(op.from, e))
        => err = ErrInvalidReturnPath

\* C10: a MAIL with RequireTLS, with UTF8, or with an Auth parameter naming
\* another address than the session's returns ErrNotImplemented and leaves
\* fromAddrID and to as they were.
C10_OptionsRefused ==
    [][(/\ op'.name = "Mail"
        /\ \/ op'.opts.RequireTLS
           \/ op'.opts.UTF8
           \/ op'.opts.Auth \notin {NIL, Empty, Lookup(emails, addrID)})
         => (err' = ErrNotImplemented /\ fromAddrID' = fromAddrID /\ to' = to)]_vars

C10_AuthRefused ==
    /\ op.name = "Mail"
    /\ ~op.opts.RequireTLS /\ ~op.opts.UTF8
    /\ op.opts.Auth \notin {NIL, Empty, Lookup(emails, addrID)}
    /\ err = ErrNotImplemented
    /\ fromAddrID # "" /\ to # <<>>

\* C11: `to` never holds two equal entries, entries differing in case being
\* different; a RCPT with a non-empty argument succeeds and appends the argument
\* when `to` lacks it and leaves `to` as it is otherwise; Reset and Logout empty
\* `to`, and Mail and Data leave it alone.
C11_EnvelopeDeduplicated ==
    /\ [](\A i, j \in 1..Len(to) : to[i] = to[j] => i = j)
    /\ [][(op'.name = "Rcpt" /\ op'.to # Empty) =>
            /\ err' = OK
            /\ to' = IF \E i \in 1..Len(to) : to[i] = op'.to THEN to
                     ELSE to \o <<op'.to>>]_vars
    /\ [][op'.name \in {"Reset", "Logout"} => to' = <<>>]_vars
    /\ [][op'.name \in {"Mail", "Data"} => to' = to]_vars

C11_RepeatedRcpt ==
    /\ op.name = "Rcpt" /\ op.to = Rx /\ err = OK
    /\ to = <<Rx, RX, Qx>>

\* C12: a RCPT with the empty address returns ErrInvalidRecipient and leaves `to`
\* and fromAddrID as they were; `to` never holds the empty address.
C12_EmptyRecipientRefused ==
    /\ [](\A i \in 1..Len(to) : to[i] # Empty)
    /\ [][(op'.name = "Rcpt" /\ op'.to = Empty) =>
            /\ err' = ErrInvalidRecipient
            /\ to' = to
            /\ fromAddrID' = fromAddrID]_vars

C12_EmptyRcpt ==
    /\ op.name = "Rcpt" /\ op.to = Empty /\ err = ErrInvalidRecipient
    /\ to # <<>> /\ fromAddrID # ""

\* What a Data that returns at its envelope check leaves alone.
EnvelopeCheckOnly ==
    /\ calls' = <<>>
    /\ UNCHANGED <<fromAddrID, to, messages, eventCh>>

\* C13 as claimed: a DATA with no recipient returns ErrInvalidRecipient, and a
\* DATA with empty fromAddrID returns ErrInvalidReturnPath, before the stream is
\* read (whether or not the stream would parse) and before any client call.
C13_NoRecipientsRefused ==
    [][op'.name = "Data" =>
         /\ to = <<>> => (err' = ErrInvalidRecipient /\ EnvelopeCheckOnly)
         /\ fromAddrID = "" => (err' = ErrInvalidReturnPath /\ EnvelopeCheckOnly)]_vars

\* C13 as amended: a DATA with empty fromAddrID returns ErrInvalidReturnPath
\* whatever `to` holds, and a DATA with fromAddrID set and no recipient returns
\* ErrInvalidRecipient, both before the stream is read and before any client call.
C13_EnvelopeCheckedFirst ==
    [][op'.name = "Data" =>
         /\ fromAddrID = "" => (err' = ErrInvalidReturnPath /\ EnvelopeCheckOnly)
         /\ (fromAddrID # "" /\ to = <<>>) =>
                (err' = ErrInvalidRecipient /\ EnvelopeCheckOnly)]_vars

C13_DataWithoutRcpt ==
    /\ op.name = "Data" /\ err = ErrInvalidRecipient
    /\ fromAddrID # "" /\ to = <<>>

\* C14: once a DATA has completed successfully the session is idle again:
\* fromAddrID and `to` are empty.
C14_IdleAfterData ==
    (op.name = "Data" /\ err = OK) => (fromAddrID = "" /\ to = <<>>)

\* The IDs the internal references of the last getParentID name.
InternalIDs == {TrimInternal(r) : r \in {x \in Range(op.references) : IsInternal(x)}}

\* The external references of the last getParentID, in header order.
ExternalOnes ==
    LET external(r) == ~IsInternal(r) IN SelectSeq(op.references, external)

\* Whether the lookups of the session may return m: every message in combined
\* mode, the messages of the session's address in split mode.
InScope(m) == addrMode = SplitMode => m.AddressID = addrID

\* The messages the lookups of the internal references returned.
Encountered == {m \in op.before : m.ID \in InternalIDs /\ InScope(m)}

\* The positions in the log of the calls named `call`.
CallsOf(call) == {i \in 1..Len(calls) : calls[i].call = call}

\* C15: when getParentID returns without error for a header with no external
\* reference whose internal references found drafts only, it returns no parent
\* and has called DeleteMessage once for each of these drafts and for nothing
\* else.
C15_OnlyDraftsNoParent ==
    (/\ op.name = "getParentID" /\ err = OK
     /\ ExternalOnes = <<>>
     /\ \A m \in Encountered : m.draft)
        => /\ op.parentID = <<>>
           /\ \A m \in Encountered :
                  Cardinality({i \in CallsOf("DeleteMessage") : calls[i].arg = m.ID}) = 1
           /\ Cardinality(CallsOf("DeleteMessage")) = Cardinality(Encountered)
           /\ messages = op.before \ Encountered

C15_TwoDraftsDeleted ==
    /\ op.name = "getParentID" /\ err = OK
    /\ op.references = <<RefD1, RefD2>>
    /\ Cardinality(Encountered) = 2
    /\ Cardinality(CallsOf("DeleteMessage")) = 2
    /\ op.parentID = <<>>

\* The positions in the log of the lookups by external ID.
ExternalLookups ==
    {i \in CallsOf("GetAllMessageMetadata") : "ExternalID" \in DOMAIN calls[i].arg}

\* The messages a lookup of the external ID x returns once the internal
\* references have been gone through.
ExternalMatches(x) == {m \in messages : m.ExternalID = x /\ InScope(m)}

\* No call before the external lookup has failed.
InternalPhaseDone == \A i \in 1..Len(calls) : ~calls[i].ok => i \in ExternalLookups

\* The parent the claim prescribes for a lookup of the external ID x.
UniqueMatch(x) ==
    IF Cardinality(ExternalMatches(x)) = 1
    THEN (CHOOSE m \in ExternalMatches(x) : TRUE).ID
    ELSE <<>>

\* C16: once the internal references have been gone through, getParentID looks
\* up an external ID exactly when no internal reference gave a parent and the
\* header has an external reference; it does so once, for the last external
\* reference of the header, and returns the match when there is exactly one and
\* no parent otherwise.
C16_LastExternalUnique ==
    (op.name = "getParentID" /\ InternalPhaseDone) =>
        LET found == \E m \in Encountered : ~m.draft
            n == Len(ExternalOnes)
        IN  /\ ExternalLookups # {} <=> (~found /\ n > 0)
            /\ Cardinality(ExternalLookups) <= 1
            /\ \A i \in ExternalLookups : calls[i].arg.ExternalID = ExternalOnes[n]
            /\ (err = OK /\ ExternalLookups # {}) => op.parentID = UniqueMatch(ExternalOnes[n])
            /\ (err = OK /\ ~found /\ n = 0) => op.parentID = <<>>

C16_SeveralMatches ==
    /\ op.name = "getParentID" /\ err = OK
    /\ op.references = <<RefE2, RefE1>>
    /\ Cardinality(ExternalMatches(RefE1)) = 2
    /\ Cardinality(ExternalMatches(RefE2)) = 1
    /\ ExternalLookups # {}
    /\ op.parentID = <<>>

\* C17: the parent getParentID returns is never a draft of the mailbox.
C17_ParentNeverDraft ==
    (op.name = "getParentID" /\ err = OK) =>
        \A m \in op.before : m.ID = op.parentID => ~m.draft

\* The positions in the log of the directory calls that returned an error.
FailedDirectoryCalls(log) ==
    {i \in 1..Len(log) :
        log[i].call \in {"GetAllMessageMetadata", "DeleteMessage"} /\ ~log[i].ok}

\* C18: a DATA during which a GetAllMessageMetadata or a DeleteMessage call of
\* the reference resolution fails returns an error, calls none of CreateDraft,
\* UploadAttachment and SendDraft, and enqueues no event.
C18_DirectoryFailureAborts ==
    [][(op'.name = "Data" /\ FailedDirectoryCalls(calls') # {}) =>
         /\ err' \in {ErrMetadata, ErrDelete}
         /\ \A i \in 1..Len(calls') :
                calls'[i].call \notin {"CreateDraft", "UploadAttachment", "SendDraft", "Enqueue"}
         /\ eventCh' = eventCh]_vars

C18_DeleteFailed ==
    /\ op.name = "Data" /\ err = ErrDelete
    /\ op.message.References = <<RefD1, RefE1>>
    /\ Len(calls) = 2 /\ FailedDirectoryCalls(calls) = {2}

\* A sendWithKey is in progress.
InFlight == flight.pc \in Range(Stages)

\* C19: the stages of a DATA run under one cancellation scope that the
\* connection's scope cancels: once the client has disconnected, the context of
\* a sendWithKey in progress is done.
C19_DisconnectCancels ==
    (InFlight /\ ~flight.connected) => Done("send", flight.cancelled)

\* C20: in every request of the assembler each recipient is in exactly one
\* package, a package with an encrypting scheme carries exactly one key packet
\* for each of its recipients and none for anyone else, and a package with
\* another scheme carries no key packet.
C20_PackagesPartition ==
    op.name = "createSendReq" =>
        /\ \A r \in DOMAIN op.recipients :
               Cardinality({p \in op.req : r \in p.recipients}) = 1
        /\ \A p \in op.req :
               /\ p.recipients # {} /\ p.recipients \subseteq DOMAIN op.recipients
               /\ p.scheme \in {"internal", "pgp-mime", "pgp-inline"} =>
                      /\ Len(p.keyPackets) = Cardinality(p.recipients)
                      /\ \A r \in p.recipients :
                             \E i \in 1..Len(p.keyPackets) : p.keyPackets[i].recipient = r
               /\ p.scheme \notin {"internal", "pgp-mime", "pgp-inline"} => p.keyPackets = <<>>

C20_MixedRecipients ==
    /\ op.name = "createSendReq"
    /\ Cardinality(op.req) = 2
    /\ \E p \in op.req : p.scheme = "internal" /\ p.recipients = {Rx} /\ Len(p.keyPackets) = 1
    /\ \E p \in op.req : p.scheme = "plain" /\ p.recipients = {Qx}

\* The goroutine has looked up, visited and written, and still holds the lock.
Wrote(t) == mapThreads[t].pc = "done"

\* The keys of the entries in order have no duplicate and are the keys that hold a value.
WellFormed(mp) ==
    /\ \A i, j \in 1..Len(mp.order) : mp.order[i] = mp.order[j] => i = j
    /\ \A k \in MapKeys : Contains(mp.order, k) <=> mp.data[k] # NoVal

C22_SetUpdatesInPlace ==
    LET th == mapThreads["t1"]
        call == th.call
    IN  Wrote("t1") =>
            /\ call.name = "Set" =>
                   /\ safeMap.data = [th.met.data EXCEPT ![call.key] = call.val]
                   /\ Contains(th.met.order, call.key) => safeMap.order = th.met.order
            /\ (call.name = "Get" /\ th.met.data[call.key] # NoVal) =>
                   /\ th.ret
                   /\ th.seen = <<<<th.met.data[call.key]>>>>
                   /\ safeMap.data = th.met.data
                   /\ safeMap.order = th.met.order

\* The first of two keys, holding "b", is set to "c".
C22_FirstKeyUpdated ==
    /\ Wrote("t1")
    /\ mapThreads["t1"].call.name = "Set"
    /\ mapThreads["t1"].call.key = "a"
    /\ mapThreads["t1"].met.order = <<"a", "b">>
    /\ mapThreads["t1"].met.data["a"] = "b"
    /\ safeMap.data["a"] = "c"

\* C23: Index(i) with i below 0 or at or above the size returns false, does not
\* invoke its visitor and leaves the map as it met it, the empty map included.
C23_IndexOutOfRange ==
    LET th == mapThreads["t1"]
    IN  (/\ Wrote("t1")
         /\ th.call.name = "Index"
         /\ (th.call.idx < 0 \/ th.call.idx >= Len(th.met.order))) =>
            /\ ~th.ret
            /\ th.seen = <<>>
            /\ safeMap.data = th.met.data
            /\ safeMap.order = th.met.order

\* Index(0) has met the empty map.
C23_IndexOfEmpty ==
    /\ Wrote("t1")
    /\ mapThreads["t1"].call.name = "Index"
    /\ mapThreads["t1"].call.idx = 0
    /\ mapThreads["t1"].met.order = <<>>
    /\ ~mapThreads["t1"].ret

\* The goroutine's latest call is GetDelete(key), and it has looked the key up.
Deleting(t, key) ==
    /\ mapThreads[t].call.name = "GetDelete"
    /\ mapThreads[t].call.key = key
    /\ mapThreads[t].pc \in {"visiting", "done", "idle"}

\* C24: GetDelete(k) of a present key invokes its visitor once, with the value
\* the key holds, removes the key (the size goes down by one) and returns
\* true; of an absent key it returns false, invokes no visitor and leaves the
\* map as it is. Of two goroutines that call GetDelete on the same key, one of
\* which met it present, exactly one returns true.
C24_GetDeleteOnce ==
    /\ \A t \in Goroutines :
          LET th == mapThreads[t]
              key == th.call.key
          IN  (Wrote(t) /\ th.call.name = "GetDelete") =>
                 IF th.met.data[key] # NoVal
                 THEN /\ th.ret
                      /\ th.seen = <<<<th.met.data[key]>>>>
                      /\ ~mapHas(safeMap, key)
                      /\ safeMap.data[key] = NoVal
                      /\ Len(safeMap.order) = Len(th.met.order) - 1
                 ELSE /\ ~th.ret
                      /\ th.seen = <<>>
                      /\ safeMap.data = th.met.data
                      /\ safeMap.order = th.met.order
    /\ \A key \in MapKeys :
          (/\ Deleting("t1", key)
           /\ Deleting("t2", key)
           /\ (mapHas(mapThreads["t1"].met, key) \/ mapHas(mapThreads["t2"].met, key))) =>
              mapThreads["t1"].ret # mapThreads["t2"].ret

\* Both goroutines have called GetDelete("a"): the first got the entry, the
\* second found it gone.
C24_SecondFindsNothing ==
    /\ Deleting("t1", "a")
    /\ Deleting("t2", "a")
    /\ mapThreads["t1"].pc = "idle"
    /\ mapThreads["t1"].ret
    /\ mapThreads["t1"].seen = <<<<"b">>>>
    /\ Wrote("t2")
    /\ ~mapThreads["t2"].ret

\* The goroutine is inside an operation: past Lock and before Unlock.
InSection(t) == mapThreads[t].pc \in {"locked", "visiting", "done"}

\* C25: the operations on one map exclude each other: a goroutine inside an
\* operation holds the lock and no other goroutine is inside one, so while a
\* visitor runs every other call, read or write, waits, and a visitor meets
\* the map between two whole operations.
C25_MutualExclusion ==
    \A t \in Goroutines :
        /\ InSection(t) =>
               /\ safeMap.lock = t
               /\ \A u \in Goroutines \ {t} : ~InSection(u)
        /\ safeMap.lock = t => InSection(t)

\* A visitor of Get runs while the other goroutine waits to delete.
C25_WriterWaits ==
    /\ mapThreads["t1"].pc = "visiting"
    /\ mapThreads["t1"].call.name = "Get"
    /\ mapThreads["t1"].ret
    /\ mapThreads["t2"].pc = "waiting"
    /\ mapThreads["t2"].call.name = "GetDelete"

\* C26: whenever MAIL FROM returns success for an address, the email of
\* fromAddrID equals that address case-insensitively: fromAddrID is the
\* address id of this MAIL, never one left over from an earlier MAIL.
C26_SenderOfThisMail ==
    (op.name = "Mail" /\ err = OK) =>
        /\ fromAddrID \in AddrIDs
        /\ EqualFold(Lookup(emails, fromAddrID), op.from)

\* The internal references of the last getParentID, in header order.
InternalOnes == internalRefs(op.references)

\* The lookups by ID in the log, in the order they were made.
IDLookups ==
    LET byID(c) == c.call = "GetAllMessageMetadata" /\ "ID" \in DOMAIN c.arg
    IN  SelectSeq(calls, byID)

\* The positions of the internal references whose lookup returned a message
\* that is no draft.
NonDraftAt ==
    {i \in 1..Len(InternalOnes) :
        \E m \in op.before : m.ID = InternalOnes[i] /\ InScope(m) /\ ~m.draft}

Least(set) == CHOOSE i \in set : \A j \in set : i <= j

Greatest(set) == CHOOSE i \in set : \A j \in set : i >= j

\* C27 as stated: the first internal reference that names a message that is
\* no draft ends the search of the internal references: it is the parent
\* returned, and no internal reference after it is looked up.
C27_FirstNonDraftEndsSearch ==
    (op.name = "getParentID" /\ err = OK /\ NonDraftAt # {}) =>
        /\ op.parentID = InternalOnes[Least(NonDraftAt)]
        /\ Len(IDLookups) = Least(NonDraftAt)

\* C27: when getParentID returns without error, it has looked up every
\* internal reference, one at a time and in header order, has deleted the
\* drafts these lookups returned and nothing else, and, when a lookup
\* returned a message that is no draft, returns the last such message in
\* header order.
C27_LastNonDraftWins ==
    (op.name = "getParentID" /\ err = OK) =>
        /\ [i \in 1..Len(IDLookups) |-> IDLookups[i].arg.ID] = InternalOnes
        /\ {calls[i].arg : i \in CallsOf("DeleteMessage")}
               = {m.ID : m \in {e \in Encountered : e.draft}}
        /\ NonDraftAt # {} => op.parentID = InternalOnes[Greatest(NonDraftAt)]

\* Two internal references, each naming a message that is no draft: the second
\* is the parent.
C27_TwoNonDrafts ==
    /\ op.name = "getParentID" /\ err = OK
    /\ op.references = <<RefM1, RefM2>>
    /\ NonDraftAt = {1, 2}
    /\ Len(IDLookups) = 2
    /\ op.parentID = <<"m2">>

\* C28: every GetAllMessageMetadata of getParentID, by ID or by ExternalID,
\* failed or not, filters by AddressID exactly when the session is in split
\* mode, and then by the session's address ID.
C28_AddressFilterIffSplit ==
    op.name = "getParentID" =>
        \A i \in CallsOf("GetAllMessageMetadata") :
            IF addrMode = SplitMode
            THEN "AddressID" \in DOMAIN calls[i].arg /\ calls[i].arg.AddressID = addrID
            ELSE "AddressID" \notin DOMAIN calls[i].arg

\* A split-mode getParentID that looked up an internal and an external reference.
C28_SplitLookups ==
    /\ op.name = "getParentID"
    /\ addrMode = SplitMode
    /\ Len(IDLookups) = 1
    /\ ExternalLookups # {}
    /\ \A i \in CallsOf("GetAllMessageMetadata") : calls[i].arg.AddressID = addrID

DirectoryCalls == {"GetAllMessageMetadata", "DeleteMessage"}

\* C29: a DATA calls CreateDraft at most once, only after every call of the
\* reference resolution has returned without error and with none of them
\* left to make, and with ParentID the parent getParentID gives for the
\* References of the message on the mailbox the DATA met (empty when it
\* gives none).
C29_DraftUnderResolvedParent ==
    [][op'.name = "Data" =>
          LET log == calls'
              drafts == {i \in 1..Len(log) : log[i].call = "CreateDraft"}
              resolved == getParentID(World(messages, NoFailure), addrID, addrMode,
                                      op'.message.References)
          IN  /\ Cardinality(drafts) <= 1
              /\ \A i \in drafts :
                    /\ \A j \in 1..(i - 1) : log[j].ok /\ log[j].call \in DirectoryCalls
                    /\ \A j \in (i + 1)..Len(log) : log[j].call \notin DirectoryCalls
                    /\ log[i].arg.ParentID = resolved.parentID]_vars

\* A reply to m1 was sent: its draft was created under m1.
C29_ReplyDrafted ==
    /\ op.name = "Data" /\ err = OK
    /\ op.message.References = <<RefM1>>
    /\ \E i \in CallsOf("CreateDraft") : calls[i].ok /\ calls[i].arg.ParentID = <<"m1">>

\* C30: a DATA calls SendDraft at most once, and only when every call before
\* it has returned without error, among them, after the CreateDraft of the
\* draft it sends, an UploadAttachment to that draft for every attachment of
\* the message (the public key included when the settings attach it) and a
\* GetPublicKeys and a GetAllContactEmails for every recipient of the draft; a
\* DATA one of whose uploads failed does not call SendDraft.
C30_SendAfterUploadsAndPrefs ==
    [][op'.name = "Data" =>
          LET log == calls'
              sends == {i \in 1..Len(log) : log[i].call = "SendDraft"}
              attachments == Range(op'.message.Attachments)
                                 \cup (IF settings.AttachPublicKey THEN {"publickey"} ELSE {})
              asked(i, call, r) == \E j \in 1..(i - 1) : log[j].call = call /\ log[j].arg = r
          IN  /\ Cardinality(sends) <= 1
              /\ \A i \in sends :
                    /\ \A j \in 1..(i - 1) : log[j].ok
                    /\ \E d \in 1..(i - 1) :
                          /\ log[d].call = "CreateDraft"
                          /\ \A a \in attachments :
                                \E j \in (d + 1)..(i - 1) :
                                    /\ log[j].call = "UploadAttachment"
                                    /\ log[j].arg.Filename = a
                                    /\ log[j].arg.MessageID = log[i].arg
                          /\ \A r \in Range(Recipients(log[d].arg)) :
                                /\ asked(i, "GetPublicKeys", r)
                                /\ asked(i, "GetAllContactEmails", r)
              /\ (\E j \in 1..Len(log) : log[j].call = "UploadAttachment" /\ ~log[j].ok) =>
                    sends = {}
              /\ err' = ErrAttachment => sends = {}]_vars

\* A message with an attachment was sent.
C30_SentWithAttachment ==
    /\ op.name = "Data" /\ err = OK
    /\ op.message.Attachments = <<"a.txt">>
    /\ \E i \in CallsOf("UploadAttachment") : calls[i].ok /\ calls[i].arg.Filename = "a.txt"
    /\ CallsOf("GetPublicKeys") # {}
    /\ \E i \in CallsOf("SendDraft") : calls[i].ok

\* A createAttachments is in progress or has returned.
Attaching == pool.pc # "idle" /\ pool.job = "attachments"

ItemsFailed == {i \in DOMAIN pool.items : pool.status[i] = "failed"}

\* C31: once the processing of an attachment has failed at any of its five
\* steps, the context the workers share is cancelled, no attachment is started
\* or uploaded from then on, and createAttachments returns an error and no
\* session key; when none fails it returns one session key for every
\* attachment, each under the ID the server gave that attachment.
C31_AttachmentFailureCancels ==
    /\ [](Attaching =>
            /\ ItemsFailed # {} => pool.cancelled
            /\ (pool.pc = "returned" /\ ItemsFailed # {}) =>
                   pool.result.err # OK /\ pool.result.keys = {}
            /\ (pool.pc = "returned" /\ ItemsFailed = {}) =>
                   /\ pool.result.err = OK
                   /\ Cardinality(pool.result.keys) = Len(pool.items)
                   /\ Cardinality({k[1] : k \in pool.result.keys}) = Len(pool.items)
                   /\ \A i \in DOMAIN pool.items :
                         /\ pool.out[i].attID > 0
                         /\ <<pool.out[i].attID, <<"key", pool.items[i]>>>> \in pool.result.keys)
    /\ [][(Attaching /\ pool.cancelled) =>
             /\ pool'.uploads = pool.uploads
             /\ \A i \in DOMAIN pool.items :
                   pool'.status[i] = "started" => pool.status[i] = "started"]_vars

\* The first of three attachments failed to upload while the second was in
\* progress: the third was never started, and no key was returned.
C31_ThirdNeverStarted ==
    /\ Attaching /\ pool.pc = "returned"
    /\ Len(pool.items) = 3
    /\ pool.fail = [at |-> 1, stage |-> "upload"]
    /\ pool.status[2] = "done"
    /\ pool.status[3] = "skipped"
    /\ pool.result.err # OK

\* C32: in whatever order the lookups complete, the i-th result of the pool is
\* the send preference computed for the i-th address, and the map
\* getRecipients returns has the addresses it was given as its keys, each with
\* the send preference computed for that address.
C32_PrefsOfTheirAddress ==
    (pool.pc = "returned" /\ pool.job = "recipients" /\ pool.result.err = OK) =>
        /\ \A i \in DOMAIN pool.items : pool.out[i].val = <<"prefs", pool.items[i]>>
        /\ {k[1] : k \in pool.result.keys} = Range(pool.items)
        /\ \A k \in pool.result.keys : k[2] = <<"prefs", k[1]>>

\* The lookup of the second address completed before that of the first.
C32_CompletedInReverse ==
    /\ pool.pc = "returned" /\ pool.job = "recipients"
    /\ pool.items = <<Rx, Qx>>
    /\ pool.finished = <<2, 1>>
    /\ pool.result.err = OK
    /\ pool.result.keys = {<<Rx, <<"prefs", Rx>>>>, <<Qx, <<"prefs", Qx>>>>}

\* The items a worker has started on and not yet left.
InProgress ==
    {i \in DOMAIN pool.items : pool.status[i] \notin {"pending", "skipped", "failed", "done"}}

\* C33: while createAttachments or getRecipients runs its pool, the items in
\* progress at the same time, and the goroutines of the pool, are never more
\* than NumCPU, however many attachments or recipients there are.
C33_AtMostNumCPU ==
    pool.pc = "running" =>
        /\ Cardinality(InProgress) <= NumCPU
        /\ pool.workers <= NumCPU

\* More attachments than CPUs: NumCPU of them are in progress, one waits.
C33_OneWaits ==
    /\ pool.pc = "running" /\ pool.job = "attachments"
    /\ Len(pool.items) > NumCPU
    /\ Cardinality(InProgress) = NumCPU
    /\ pool.status[Len(pool.items)] = "pending"

\* C34: no Reset, Logout, Mail, Rcpt or Data changes the session's userID,
\* addrID, addrMode, emails, settings or addrKRs: they keep the values they
\* were constructed with.
C34_SessionFieldsFrozen ==
    [][/\ userID' = userID
       /\ addrID' = addrID
       /\ addrMode' = addrMode
       /\ emails' = emails
       /\ settings' = settings
       /\ addrKRs' = addrKRs]_vars

\* A message was sent and the session reset: the session still has its emails.
C34_AfterSendAndReset ==
    /\ op.name = "Reset"
    /\ Len(eventCh) = 1
    /\ userID = "u1"
    /\ emails = [id \in AddrIDs |-> IF id = "id1" THEN Alice ELSE Bob]
    /\ \E c \in Configs : addrID = c.addrID /\ addrMode = c.addrMode

\* C35: every DeleteMessage of a DATA names a draft of the mailbox that a
\* successful lookup of an internal reference of the message returned just
\* before; it comes before any lookup by ExternalID and before the CreateDraft
\* of the DATA, so that nothing found by the external lookup and not the new
\* draft is deleted; and every message that is no draft stays in the mailbox.
C35_OnlyReferencedDraftsDeleted ==
    [][op'.name = "Data" =>
          LET log == calls'
              internal == internalRefs(op'.message.References)
          IN  /\ \A i \in 1..Len(log) :
                    log[i].call = "DeleteMessage" =>
                       /\ \E m \in messages :
                             /\ m.draft
                             /\ m.ID = log[i].arg
                             /\ m.ID \in Range(internal)
                             /\ log[i].ok => m \notin messages'
                       /\ \E j \in 1..(i - 1) :
                             /\ log[j].call = "GetAllMessageMetadata" /\ log[j].ok
                             /\ "ID" \in DOMAIN log[j].arg
                             /\ log[j].arg.ID = log[i].arg
                             /\ \A k \in (j + 1)..(i - 1) : log[k].call = "DeleteMessage"
                       /\ \A j \in 1..(i - 1) :
                             /\ log[j].call # "CreateDraft"
                             /\ log[j].call = "GetAllMessageMetadata" =>
                                   "ExternalID" \notin DOMAIN log[j].arg
              /\ \A m \in messages : ~m.draft => m \in messages']_vars

\* A DATA deleted the draft d1 it referred to, looked up its external
\* reference and created its own draft, which is in the mailbox.
C35_StaleDraftDeleted ==
    /\ op.name = "Data"
    /\ op.message.References = <<RefD1, RefE1>>
    /\ \E i \in CallsOf("DeleteMessage") : calls[i].ok /\ calls[i].arg = <<"d1">>
    /\ ExternalLookups # {}
    /\ \E i \in CallsOf("CreateDraft") : calls[i].ok
    /\ \E m \in messages : m.ID \in Range(NewIDs)
    /\ \A m \in messages : m.ID # <<"d1">>

====
